---- MODULE Spec2Model ----
(***************************************************************************)
(* A model of gandiva's StringParser (cpp/src/gandiva/precompiled/         *)
(* string_parser.h).  The parser is a library of pure functions over byte  *)
(* spans.  A byte span (s, len) is a sequence of character codes; s + i,   *)
(* len - i is the suffix that starts at index i.  Every parsing function   *)
(* is an operator that returns the record [result, value] the C++ function *)
(* returns through *result and its return value.  The state machine types  *)
(* an input span character by character and then calls one entry point.    *)
(***************************************************************************)
EXTENDS Integers, Sequences, FiniteSets

VARIABLES
    pc,              \* "input": the span is being built; "done": a call returned
    s,               \* the input span
    fn,              \* the entry point called ("none" before the call)
    bits,            \* width of the integer type T of StringToInt<T>
    base,            \* the base argument of StringToInt(s, len, base, result)
    type_precision,  \* StringToDecimal's type_precision argument
    type_scale,      \* StringToDecimal's type_scale argument
    round,           \* StringToDecimal's round argument
    raw,             \* the decimal raw value rendered into s (round trip)
    result,          \* *result after the call
    value,           \* the returned value
    fval,            \* the value StringToFloat returned
    ub               \* TRUE when the call executed undefined behaviour

vars == <<pc, s, fn, bits, base, type_precision, type_scale, round, raw, result, value, fval, ub>>

----------------------------------------------------------------------------
(* enum ParseResult *)
PARSE_SUCCESS == 0
PARSE_FAILURE == 1
PARSE_OVERFLOW == 2
PARSE_UNDERFLOW == 3

NO_RESULT == 0 - 1     \* *result before any call wrote it

(* Character codes the parser compares against. *)
CH_TAB == 9
CH_NL == 10
CH_VT == 11
CH_FF == 12
CH_CR == 13
CH_SPACE == 32
CH_PLUS == 43
CH_MINUS == 45
CH_DOT == 46
CH_0 == 48
CH_9 == 57
CH_UA == 65
CH_UE == 69
CH_UF == 70
CH_UL == 76
CH_UR == 82
CH_US == 83
CH_UT == 84
CH_UU == 85
CH_UZ == 90
CH_a == 97
CH_e == 101
CH_f == 102
CH_l == 108
CH_r == 114
CH_s == 115
CH_t == 116
CH_u == 117
CH_z == 122

Ret(r, v) == [result |-> r, value |-> v]

(* The span (s + i, len - i), i counted from 0. *)
From(str, i) == SubSeq(str, i + 1, Len(str))

(* std::numeric_limits<T>::max() and min() of the signed type of w bits. *)
MaxOf(w) == (2 ^ (w - 2) - 1) * 2 + 1
MinOf(w) == 0 - MaxOf(w) - 1

(* static_cast<T>(x): x reduced modulo 2^w into the range of the signed type. *)
ToSigned(w, x) == ((x + 2 ^ (w - 1)) % (2 ^ w)) - 2 ^ (w - 1)

(* Arithmetic in UnsignedT wraps modulo 2^w. *)
ToUnsigned(w, x) == x % (2 ^ w)

IsWhitespace(c) ==
    c = CH_SPACE \/ c = CH_TAB \/ c = CH_NL \/ c = CH_VT \/ c = CH_FF \/ c = CH_CR

(* As IsAllWhitespace, looking at the first character only. *)
IsAllWhitespace_first(str) == Len(str) = 0 \/ IsWhitespace(str[1])

(* StringParser::IsAllWhitespace(s, len) *)
IsAllWhitespace(str) == \A i \in 1..Len(str) : IsWhitespace(str[i])

RECURSIVE SkipLoop(_, _)
SkipLoop(str, i) ==
    IF i < Len(str) /\ IsWhitespace(str[i + 1]) THEN SkipLoop(str, i + 1) ELSE i

SkipLeadingWhitespace(str) == SkipLoop(str, 0)

IsDigit(c) == c >= CH_0 /\ c <= CH_9

max_ascii_len_off(w) == CASE w = 8 -> 4 [] w = 16 -> 6 [] w = 32 -> 11 [] OTHER -> 20

(* StringParseTraits<T>::max_ascii_len() *)
max_ascii_len(w) == CASE w = 8 -> 3 [] w = 16 -> 5 [] w = 32 -> 10 [] OTHER -> 19

----------------------------------------------------------------------------
(* StringToIntNoOverflow<UnsignedT>: the loop from index i (0-based) on. *)
RECURSIVE NoOverflowLoop(_, _, _, _)
NoOverflowLoop(w, str, i, val) ==
    IF i >= Len(str) THEN Ret(PARSE_SUCCESS, val)
    ELSE IF IsDigit(str[i + 1])
         THEN NoOverflowLoop(w, str, i + 1, ToUnsigned(w, val * 10 + (str[i + 1] - CH_0)))
         ELSE IF ~IsAllWhitespace(From(str, i))
              THEN Ret(PARSE_FAILURE, 0)
              ELSE Ret(PARSE_SUCCESS, val)

(* As StringToIntNoOverflow, with Failure for an empty span. *)
StringToIntNoOverflow_nonempty(w, str) ==
    IF Len(str) = 0 THEN Ret(PARSE_FAILURE, 0)
    ELSE IF IsDigit(str[1]) THEN NoOverflowLoop(w, str, 1, str[1] - CH_0)
    ELSE Ret(PARSE_FAILURE, 0)

(* StringToIntNoOverflow<UnsignedT>(s, len, result) *)
StringToIntNoOverflow(w, str) ==
    IF Len(str) = 0 THEN Ret(PARSE_SUCCESS, 0)
    ELSE IF IsDigit(str[1]) THEN NoOverflowLoop(w, str, 1, str[1] - CH_0)
    ELSE Ret(PARSE_FAILURE, 0)

(* The overflow-checked loop of StringToIntInternal<T>(s, len, result). *)
RECURSIVE CheckedLoop(_, _, _, _, _, _, _)
CheckedLoop(w, str, i, first, val, max_val, negative) ==
    IF i >= Len(str)
    THEN Ret(PARSE_SUCCESS, ToSigned(w, IF negative THEN 0 - val ELSE val))
    ELSE IF IsDigit(str[i + 1])
         THEN LET digit == str[i + 1] - CH_0
                  max_div_10 == max_val \div 10
                  max_mod_10 == max_val % 10
              IN  IF val > max_div_10 - (IF digit > max_mod_10 THEN 1 ELSE 0)
                  THEN Ret(PARSE_OVERFLOW,
                           ToSigned(w, IF negative THEN 0 - max_val ELSE max_val))
                  ELSE CheckedLoop(w, str, i + 1, first,
                                   ToUnsigned(w, val * 10 + digit), max_val, negative)
         ELSE IF i = first \/ ~IsAllWhitespace(From(str, i))
              THEN Ret(PARSE_FAILURE, 0)
              ELSE Ret(PARSE_SUCCESS, ToSigned(w, IF negative THEN 0 - val ELSE val))

(* StringToIntInternal<T>(s, len, result), T the signed type of w bits. *)
StringToIntInternal(w, str) ==
    IF Len(str) <= 0 THEN Ret(PARSE_FAILURE, 0)
    ELSE LET negative == str[1] = CH_MINUS
             max_val == IF negative THEN MaxOf(w) + 1 ELSE MaxOf(w)
             i == IF str[1] = CH_MINUS \/ str[1] = CH_PLUS THEN 1 ELSE 0
         IN  IF Len(str) - i < max_ascii_len(w)
             THEN LET r == StringToIntNoOverflow(w, From(str, i))
                  IN  Ret(r.result,
                          ToSigned(w, IF negative THEN 0 - r.value ELSE r.value))
             ELSE CheckedLoop(w, str, i, i, 0, max_val, negative)

StringToInt_noretry(w, str) == StringToIntInternal(w, str)

(* StringToInt<T>(s, len, result) *)
StringToInt(w, str) ==
    LET first == StringToIntInternal(w, str)
    IN  IF first.result = PARSE_SUCCESS THEN first
        ELSE StringToIntInternal(w, From(str, SkipLeadingWhitespace(str)))

----------------------------------------------------------------------------
(* Inputs of the decimal integer parser. *)
MaxIntLen == 4

IntWidths == {8, 16}

IntAlphabet == {CH_0, 49, 50, 55, 56, CH_9, CH_PLUS, CH_MINUS, CH_SPACE, CH_TAB, 120}

IntSeeds ==
    { <<>>,
      <<49, 50, 55>>, <<49, 50, 56>>, <<CH_MINUS, 49, 50, 56>>, <<CH_MINUS, 49, 50, 57>>,
      <<51, 50, 55, 54, 55>>, <<51, 50, 55, 54, 56>>,
      <<CH_MINUS, 51, 50, 55, 54, 56>>, <<CH_MINUS, 51, 50, 55, 54, 57>>,
      <<CH_PLUS, 51, 50, 55, 54, 55>>, <<CH_SPACE, CH_SPACE, 52, 50>>,
      <<52, 50, CH_SPACE, CH_SPACE>>, <<CH_TAB, CH_MINUS, 51, 50, 55, 54, 56, CH_NL>>,
      <<57, 57, 57, 57, 57>>, <<CH_MINUS, 57, 57, 57, 57, 57>>,
      <<CH_0, CH_0, 51, 50, 55, 54, 55>>, <<CH_VT, CH_FF, CH_CR>> }

(* A floating-point value: kind is "finite", "inf" or "nan"; a finite value   *)
(* is mant * 10^exp10 with the sign given by negative.                         *)
Float(kind, negative, mant, exp10) ==
    [kind |-> kind, negative |-> negative, mant |-> mant, exp10 |-> exp10]

FloatZero == Float("finite", FALSE, 0, 0)

Idle ==
    /\ fval = FloatZero
    /\ pc = "input"
    /\ fn = "none"
    /\ bits = 0
    /\ base = 0
    /\ type_precision = 0
    /\ type_scale = 0
    /\ round = FALSE
    /\ raw = 0
    /\ result = NO_RESULT
    /\ value = 0
    /\ ub = FALSE

InitInt == s \in IntSeeds /\ Idle

TypeIntChar ==
    /\ pc = "input"
    /\ Len(s) < MaxIntLen
    /\ \E c \in IntAlphabet : s' = Append(s, c)
    /\ UNCHANGED <<fval, pc, fn, bits, base, type_precision, type_scale, round, raw, result, value, ub>>

CallStringToInt ==
    /\ pc = "input"
    /\ \E w \in IntWidths :
          LET r == StringToInt(w, s)
          IN  /\ bits' = w
              /\ result' = r.result
              /\ value' = r.value
    /\ fn' = "StringToInt"
    /\ pc' = "done"
    /\ UNCHANGED <<fval, s, base, type_precision, type_scale, round, raw, ub>>

NextInt == TypeIntChar \/ CallStringToInt

SpecInt == InitInt /\ [][NextInt]_vars

----------------------------------------------------------------------------
(* The value of an alphanumeric character as a digit (lines 346-351); any     *)
(* other character has none, written NoDigit.                                  *)
NoDigit == 0 - 1

DigitOf_nocase(c) ==
    IF c >= CH_0 /\ c <= CH_9 THEN c - CH_0
    ELSE IF c >= CH_a /\ c <= CH_z THEN c - CH_a + 10
    ELSE NoDigit

DigitOf(c) ==
    IF c >= CH_0 /\ c <= CH_9 THEN c - CH_0
    ELSE IF c >= CH_a /\ c <= CH_z THEN c - CH_a + 10
    ELSE IF c >= CH_UA /\ c <= CH_UZ THEN c - CH_UA + 10
    ELSE NoDigit

NotInBase_off(digit, b) == digit > b

(* "Bail, if we encounter a digit that is not available in base." *)
NotInBase(digit, b) == digit >= b

(* The loop of StringToIntInternal<T>(s, len, base, result). *)
RECURSIVE BaseLoop(_, _, _, _, _, _, _, _)
BaseLoop(w, str, b, i, first, val, max_val, negative) ==
    LET done == Ret(PARSE_SUCCESS, ToSigned(w, IF negative THEN 0 - val ELSE val))
    IN  IF i >= Len(str) THEN done
        ELSE LET digit == DigitOf(str[i + 1])
                 max_div_base == max_val \div b
                 max_mod_base == max_val % b
             IN  IF digit = NoDigit
                 THEN IF i = first \/ ~IsAllWhitespace(From(str, i))
                      THEN Ret(PARSE_FAILURE, 0)
                      ELSE done
                 ELSE IF NotInBase(digit, b) THEN done
                 ELSE IF val > max_div_base - (IF digit > max_mod_base THEN 1 ELSE 0)
                 THEN Ret(PARSE_OVERFLOW,
                          ToSigned(w, IF negative THEN 0 - max_val ELSE max_val))
                 ELSE BaseLoop(w, str, b, i + 1, first,
                               ToUnsigned(w, val * b + digit), max_val, negative)

(* StringToIntInternal<T>(s, len, base, result) *)
StringToIntInternalBase(w, str, b) ==
    IF Len(str) <= 0 THEN Ret(PARSE_FAILURE, 0)
    ELSE LET negative == str[1] = CH_MINUS
             max_val == IF negative THEN MaxOf(w) + 1 ELSE MaxOf(w)
             i == IF str[1] = CH_MINUS \/ str[1] = CH_PLUS THEN 1 ELSE 0
         IN  BaseLoop(w, str, b, i, i, 0, max_val, negative)

(* StringToInt<T>(s, len, base, result) *)
StringToIntBase(w, str, b) ==
    LET first == StringToIntInternalBase(w, str, b)
    IN  IF first.result = PARSE_SUCCESS THEN first
        ELSE StringToIntInternalBase(w, From(str, SkipLeadingWhitespace(str)), b)

StringToBoolInternal_anylen(str) ==
    IF Len(str) >= 4 /\ (str[1] = CH_t \/ str[1] = CH_UT)
          /\ (str[2] = CH_r \/ str[2] = CH_UR) /\ (str[3] = CH_u \/ str[3] = CH_UU)
          /\ (str[4] = CH_e \/ str[4] = CH_UE)
    THEN Ret(PARSE_SUCCESS, TRUE)
    ELSE IF Len(str) >= 5 /\ (str[1] = CH_f \/ str[1] = CH_UF)
          /\ (str[2] = CH_a \/ str[2] = CH_UA) /\ (str[3] = CH_l \/ str[3] = CH_UL)
          /\ (str[4] = CH_s \/ str[4] = CH_US) /\ (str[5] = CH_e \/ str[5] = CH_UE)
    THEN Ret(PARSE_SUCCESS, FALSE)
    ELSE Ret(PARSE_FAILURE, FALSE)

(* StringToBoolInternal(s, len, result) *)
StringToBoolInternal(str) ==
    IF Len(str) >= 4 /\ (str[1] = CH_t \/ str[1] = CH_UT)
    THEN LET match == /\ (str[2] = CH_r \/ str[2] = CH_UR)
                      /\ (str[3] = CH_u \/ str[3] = CH_UU)
                      /\ (str[4] = CH_e \/ str[4] = CH_UE)
         IN  IF match /\ IsAllWhitespace(From(str, 4))
             THEN Ret(PARSE_SUCCESS, TRUE)
             ELSE Ret(PARSE_FAILURE, FALSE)
    ELSE IF Len(str) >= 5 /\ (str[1] = CH_f \/ str[1] = CH_UF)
    THEN LET match == /\ (str[2] = CH_a \/ str[2] = CH_UA)
                      /\ (str[3] = CH_l \/ str[3] = CH_UL)
                      /\ (str[4] = CH_s \/ str[4] = CH_US)
                      /\ (str[5] = CH_e \/ str[5] = CH_UE)
         IN  IF match /\ IsAllWhitespace(From(str, 5))
             THEN Ret(PARSE_SUCCESS, FALSE)
             ELSE Ret(PARSE_FAILURE, FALSE)
    ELSE Ret(PARSE_FAILURE, FALSE)

(* StringToBool(s, len, result) *)
StringToBool(str) ==
    LET first == StringToBoolInternal(str)
    IN  IF first.result = PARSE_SUCCESS THEN first
        ELSE StringToBoolInternal(From(str, SkipLeadingWhitespace(str)))

----------------------------------------------------------------------------
(* DecimalValue<T>: the model instantiates T with the 32-bit storage type. *)
DecimalBits == 32

(* DecimalUtil::GetScaleMultiplier<T>(scale): the precomputed power of ten.   *)
(* The table of a 32-bit T ends at 10^9.                                       *)
MaxScaleMultiplierExp == 9

GetScaleMultiplier(k) == 10 ^ k

(* DecimalUtil::ScaleDownAndRound<T>(value, scale, round): value / 10^scale,  *)
(* truncated, or rounded half up when round is set.  A divisor beyond the     *)
(* table exceeds twice any value of T, so the quotient is 0 either way.       *)
ScaleDownAndRound(v, k, rnd) ==
    IF k > MaxScaleMultiplierExp THEN 0
    ELSE LET divisor == GetScaleMultiplier(k)
             quotient == v \div divisor
             remainder == v % divisor
         IN  IF rnd /\ 2 * remainder >= divisor THEN quotient + 1 ELSE quotient

(* As MulPow10, with one factor of ten less. *)
MulPow10_less(v, k) ==
    [value |-> IF k > 0 THEN v * GetScaleMultiplier(k - 1) ELSE v, undefined |-> FALSE]

(* value *= multiplier in T: signed overflow is undefined behaviour, marked   *)
(* by undefined = TRUE (the caller then sees an arbitrary value).              *)
MulPow10(v, k) ==
    IF v = 0 THEN [value |-> 0, undefined |-> FALSE]
    ELSE IF k > MaxScaleMultiplierExp \/ v > MaxOf(DecimalBits) \div GetScaleMultiplier(k)
    THEN [value |-> 0, undefined |-> TRUE]
    ELSE [value |-> v * GetScaleMultiplier(k), undefined |-> FALSE]

ApplyExponent_noclamp(total_digits_count, digits_after_dot_count, exponent, v) ==
    IF exponent > digits_after_dot_count
    THEN LET p == MulPow10(v, exponent - digits_after_dot_count)
         IN  [value |-> p.value, undefined |-> p.undefined,
              precision |-> total_digits_count + (exponent - digits_after_dot_count),
              scale |-> 0]
    ELSE [value |-> v, undefined |-> FALSE,
          precision |-> total_digits_count,
          scale |-> digits_after_dot_count - exponent]

(* StringParser::ApplyExponent *)
ApplyExponent(total_digits_count, digits_after_dot_count, exponent, v) ==
    IF exponent > digits_after_dot_count
    THEN LET p == MulPow10(v, exponent - digits_after_dot_count)
         IN  [value |-> p.value, undefined |-> p.undefined,
              precision |-> total_digits_count + (exponent - digits_after_dot_count),
              scale |-> 0]
    ELSE LET sc == digits_after_dot_count - exponent
         IN  [value |-> v, undefined |-> FALSE,
              precision |-> IF total_digits_count < sc THEN sc ELSE total_digits_count,
              scale |-> sc]

(* The number of '0' characters str starts with (lines 136-140, 151-156). *)
RECURSIVE LeadingZeros(_, _)
LeadingZeros(str, i) ==
    IF i < Len(str) /\ str[i + 1] = CH_0 THEN LeadingZeros(str, i + 1) ELSE i

(* The span without its trailing whitespace (lines 119-121). *)
RECURSIVE TrimTrailingLoop(_, _)
TrimTrailingLoop(str, len) ==
    IF len > 0 /\ IsWhitespace(str[len]) THEN TrimTrailingLoop(str, len - 1) ELSE len

(* What StringToDecimal returns: undefined marks a value computed by an       *)
(* overflowing multiplication in T.                                            *)
DecRet(r, v, u) == [result |-> r, value |-> v, undefined |-> u]

RoundUp_above(first_truncated_digit) == IF first_truncated_digit > 5 THEN 1 ELSE 0

(* Line 237: value += (first_truncated_digit >= 5) *)
RoundUp(first_truncated_digit) == IF first_truncated_digit >= 5 THEN 1 ELSE 0

NothingFound_nodot(found_value, found_dot) == ~found_value

(* Line 245: neither a digit nor a dot was met. *)
NothingFound(found_value, found_dot) == ~found_value /\ found_dot = 0

(* Lines 201-255: classification of the scanned number against the type. *)
DecimalClassify(tp, ts, rnd, is_negative, st, exponent) ==
    LET found_value == st.found_value
        found_dot == st.found_dot
        total_digits_count == st.total_digits_count
        first_truncated_digit == st.first_truncated_digit
        truncated_digit_count ==
            IF total_digits_count - tp > 0 THEN total_digits_count - tp ELSE 0
        ae == ApplyExponent(total_digits_count, st.digits_after_dot_count, exponent,
                            st.value)
        precision == ae.precision
        scale == ae.scale
        signed(v) == IF is_negative THEN 0 - v ELSE v
    IN  IF precision - scale > tp - ts
        THEN DecRet(PARSE_OVERFLOW, signed(ae.value), ae.undefined)
        ELSE IF scale > ts
        THEN LET value_scale == scale - truncated_digit_count
                 shift == value_scale - ts
             IN  IF shift > 0
                 THEN DecRet(PARSE_UNDERFLOW,
                             signed(ScaleDownAndRound(ae.value, shift, rnd)), ae.undefined)
                 ELSE LET rounded == ae.value + RoundUp(first_truncated_digit)
                      IN  IF rounded = GetScaleMultiplier(tp)
                          THEN DecRet(PARSE_OVERFLOW, signed(rounded), ae.undefined)
                          ELSE DecRet(PARSE_UNDERFLOW, signed(rounded), ae.undefined)
        ELSE IF NothingFound(found_value, found_dot)
        THEN DecRet(PARSE_FAILURE, signed(ae.value), ae.undefined)
        ELSE IF ts > scale
        THEN LET p == MulPow10(ae.value, ts - scale)
             IN  DecRet(PARSE_SUCCESS, signed(p.value), ae.undefined \/ p.undefined)
        ELSE DecRet(PARSE_SUCCESS, signed(ae.value), ae.undefined)

(* As ExponentError, but handing back the accumulated mantissa on overflow. *)
ExponentError_best(r, exponent, v) ==
    IF r = PARSE_OVERFLOW /\ exponent < 0
    THEN DecRet(PARSE_UNDERFLOW, 0, FALSE)
    ELSE DecRet(r, v, FALSE)

(* Lines 188-193: the exponent text did not parse as an int8_t. *)
ExponentError(r, exponent, v) ==
    IF r = PARSE_OVERFLOW /\ exponent < 0
    THEN DecRet(PARSE_UNDERFLOW, 0, FALSE)
    ELSE DecRet(r, 0, FALSE)

AcceptsDot_again(c, found_dot) == c = CH_DOT

(* Line 183: a '.' is taken while none was found before. *)
AcceptsDot(c, found_dot) == c = CH_DOT /\ found_dot = 0

(* Lines 164-199: one iteration of the scan loop at index st.i.  The loop    *)
(* variables are the fields of st; st.stop says how the loop goes on: "run",  *)
(* "exponent" (the marker was met at i) or "fail" (lines 195-197).            *)
DecimalStep(st, str, tp, rnd) ==
    LET c == str[st.i + 1]
    IN  IF CH_0 <= c /\ c <= CH_9
        THEN [st EXCEPT
                !.found_value = TRUE,
                !.value = IF st.total_digits_count < tp
                          THEN st.value * 10 + (c - CH_0) ELSE st.value,
                !.first_truncated_digit =
                          IF ~(st.total_digits_count < tp)
                               /\ rnd /\ st.total_digits_count = tp
                          THEN c - CH_0 ELSE st.first_truncated_digit,
                !.total_digits_count = st.total_digits_count + 1,
                !.digits_after_dot_count = st.digits_after_dot_count + st.found_dot,
                !.i = st.i + 1]
        ELSE IF AcceptsDot(c, st.found_dot)
        THEN [st EXCEPT !.found_dot = 1, !.i = st.i + 1]
        ELSE IF c = CH_e \/ c = CH_UE
        THEN [st EXCEPT !.stop = "exponent"]
        ELSE [st EXCEPT !.stop = "fail"]

(* The iterations of the loop with index in lo..hi-1, in order, until one     *)
(* stops the loop.  (Halving the range keeps the evaluation shallow on long   *)
(* inputs; the iterations performed are those of the for loop.)               *)
RECURSIVE DecimalIterate(_, _, _, _, _, _)
DecimalIterate(st, str, tp, rnd, lo, hi) ==
    IF st.stop # "run" \/ lo >= hi THEN st
    ELSE IF hi - lo = 1 THEN DecimalStep(st, str, tp, rnd)
    ELSE LET mid == (lo + hi) \div 2
             left == DecimalIterate(st, str, tp, rnd, lo, mid)
         IN  DecimalIterate(left, str, tp, rnd, mid, hi)

(* As ParseExponent, starting at the marker itself. *)
ParseExponent_marker(str, i) == StringToIntInternal(8, From(str, i))

(* Line 187: the text after the marker at index i, parsed as an int8_t. *)
ParseExponent(str, i) == StringToIntInternal(8, From(str, i + 1))

(* Lines 159-255: the scan loop, the exponent sub-parse and the returns. *)
DecimalLoop(str, tp, ts, rnd, is_negative, found_value, found_dot, digits_after_dot_count) ==
    LET start == [i |-> 0, stop |-> "run", found_value |-> found_value,
                  found_dot |-> found_dot, total_digits_count |-> 0,
                  digits_after_dot_count |-> digits_after_dot_count,
                  first_truncated_digit |-> 0, value |-> 0]
        st == DecimalIterate(start, str, tp, rnd, 0, Len(str))
    IN  IF st.stop = "fail" THEN DecRet(PARSE_FAILURE, 0, FALSE)
        ELSE IF st.stop = "exponent"
        THEN LET e == ParseExponent(str, st.i)
             IN  IF e.result # PARSE_SUCCESS
                 THEN ExponentError(e.result, e.value,
                                    IF is_negative THEN 0 - st.value ELSE st.value)
                 ELSE DecimalClassify(tp, ts, rnd, is_negative, st, e.value)
        ELSE DecimalClassify(tp, ts, rnd, is_negative, st, 0)

(* As AfterDotZeros, without counting the skipped zeros. *)
AfterDotZeros_uncounted(str, found_dot) == 0

(* Lines 151-156: the zeros skipped right after the dot. *)
AfterDotZeros(str, found_dot) == IF found_dot = 1 THEN LeadingZeros(str, 0) ELSE 0

IsNegativeSign_never(trimmed) == FALSE

(* Lines 123-127: is_negative, set by a leading '-'. *)
IsNegativeSign(trimmed) == Len(trimmed) > 0 /\ trimmed[1] = CH_MINUS

(* StringParser::StringToDecimal<T>(s, len, type_precision, type_scale, round, result) *)
StringToDecimal(str0, tp, ts, rnd) ==
    LET lead == From(str0, SkipLeadingWhitespace(str0))
        trimmed == SubSeq(lead, 1, TrimTrailingLoop(lead, Len(lead)))
        is_negative == IsNegativeSign(trimmed)
        unsigned == IF Len(trimmed) > 0 /\ (trimmed[1] = CH_MINUS \/ trimmed[1] = CH_PLUS)
                    THEN From(trimmed, 1) ELSE trimmed
        zeros == LeadingZeros(unsigned, 0)
        afterZeros == From(unsigned, zeros)
        found_dot == IF Len(afterZeros) > 0 /\ afterZeros[1] = CH_DOT THEN 1 ELSE 0
        afterDot == From(afterZeros, found_dot)
        dotZeros == AfterDotZeros(afterDot, found_dot)
        rest == From(afterDot, IF found_dot = 1 THEN LeadingZeros(afterDot, 0) ELSE 0)
        found_value == zeros > 0 \/ (found_dot = 1 /\ LeadingZeros(afterDot, 0) > 0)
    IN  DecimalLoop(rest, tp, ts, rnd, is_negative, found_value, found_dot, dotZeros)

----------------------------------------------------------------------------
(* Inputs of the base parser. *)
MaxBaseLen == 4

Bases == {2, 10, 16, 36}

BaseAlphabet == {CH_0, 49, 55, CH_9, CH_f, CH_UF, CH_z, CH_MINUS, CH_SPACE, CH_DOT}

BaseSeeds ==
    { <<>>,
      <<CH_f, CH_f>>, <<CH_z>>, <<CH_UZ>>, <<CH_PLUS, CH_f, CH_UF>>,
      <<55, CH_f>>, <<56, CH_0>>, <<CH_MINUS, 56, CH_0>>, <<CH_MINUS, 56, 49>>,
      <<55, CH_f, CH_f, CH_f>>, <<56, CH_0, CH_0, CH_0>>,
      <<CH_MINUS, 56, CH_0, CH_0, CH_0>>, <<CH_MINUS, 56, CH_0, CH_0, 49>>,
      <<49, 49, 49, 49, 49, 49, 49>>, <<49, CH_0, CH_0, CH_0, CH_0, CH_0, CH_0, CH_0>>,
      <<CH_MINUS, 49, CH_0, CH_0, CH_0, CH_0, CH_0, CH_0, CH_0>>,
      <<CH_MINUS, 49, CH_0, CH_0, CH_0, CH_0, CH_0, CH_0, 49>>,
      <<51, 106>>, <<51, 107>>, <<CH_SPACE, 49, 50, CH_z, 33>>, <<49, 56, 120>> }

InitBase == s \in BaseSeeds /\ Idle

TypeBaseChar ==
    /\ pc = "input"
    /\ Len(s) < MaxBaseLen
    /\ \E c \in BaseAlphabet : s' = Append(s, c)
    /\ UNCHANGED <<fval, pc, fn, bits, base, type_precision, type_scale, round, raw, result, value, ub>>

CallStringToIntBase ==
    /\ pc = "input"
    /\ \E w \in IntWidths, b \in Bases :
          LET r == StringToIntBase(w, s, b)
          IN  /\ bits' = w
              /\ base' = b
              /\ result' = r.result
              /\ value' = r.value
    /\ fn' = "StringToIntBase"
    /\ pc' = "done"
    /\ UNCHANGED <<fval, s, type_precision, type_scale, round, raw, ub>>

NextBase == TypeBaseChar \/ CallStringToIntBase

SpecBase == InitBase /\ [][NextBase]_vars

(* Inputs of the boolean parser. *)
MaxBoolLen == 5

BoolAlphabet == {CH_t, CH_UT, CH_r, CH_u, CH_e, CH_SPACE, 120}

BoolSeeds ==
    { <<>>,
      <<CH_f, CH_a, CH_l, CH_s, CH_e>>, <<CH_UF, CH_UA, CH_UL, CH_US, CH_UE>>,
      <<CH_UF, CH_a, CH_UL, CH_s, CH_UE>>, <<CH_f, CH_a, CH_l, CH_s>>,
      <<CH_f, CH_a, CH_l, CH_s, CH_e, CH_e>>, <<CH_f, CH_a, CH_l, CH_s, CH_e, CH_SPACE>>,
      <<CH_f, CH_a, CH_l, CH_s, CH_e, CH_TAB, CH_NL>>,
      <<CH_SPACE, CH_f, CH_a, CH_l, CH_s, CH_e>>,
      <<CH_CR, CH_VT, CH_f, CH_a, CH_l, CH_s, CH_e, CH_FF>>,
      <<CH_f, CH_a, CH_l, CH_s, CH_e, CH_SPACE, 120>>,
      <<CH_f, CH_r, CH_u, CH_e>>, <<CH_t, CH_a, CH_l, CH_s, CH_e>>,
      <<CH_UT, CH_UR, CH_UU, CH_UE>>, <<CH_UT, CH_r, CH_u, CH_e>>,
      <<CH_t, CH_r, CH_u, CH_e, CH_SPACE, 120>>, <<CH_t, CH_r, CH_u, CH_e, CH_SPACE, CH_TAB>>,
      <<CH_f>>, <<CH_UF>> }

InitBool == s \in BoolSeeds /\ Idle

TypeBoolChar ==
    /\ pc = "input"
    /\ Len(s) < MaxBoolLen
    /\ \E c \in BoolAlphabet : s' = Append(s, c)
    /\ UNCHANGED <<fval, pc, fn, bits, base, type_precision, type_scale, round, raw, result, value, ub>>

CallStringToBool ==
    /\ pc = "input"
    /\ LET r == StringToBool(s)
       IN  result' = r.result /\ value' = r.value
    /\ fn' = "StringToBool"
    /\ pc' = "done"
    /\ UNCHANGED <<fval, s, bits, base, type_precision, type_scale, round, raw, ub>>

NextBool == TypeBoolChar \/ CallStringToBool

SpecBool == InitBool /\ [][NextBool]_vars

(* Inputs of the decimal parser. *)
MaxDecLen == 4
MaxPrecision == 2

DecAlphabet == {CH_0, 53, CH_9, CH_DOT, CH_e}

Zeros(n) == [i \in 1..n |-> CH_0]

(* Literals with a mantissa of about 130 digits and an exponent near the      *)
(* lower end of int8_t.                                                        *)
LongLiterals ==
    { <<d>> \o Zeros(n) \o tail \o <<CH_e, CH_MINUS, 49, 50>> \o <<x>> :
          d \in {49, 53}, n \in {127, 128, 129, 130}, tail \in {<<>>, <<49>>},
          x \in {56, 57} }

DecSeeds ==
    { <<>>,
      <<49, 50, 51, CH_DOT, 52, 53, 54>>, <<57, 57, 57, 57, 57, 57>>,
      <<CH_0, CH_DOT, CH_0, 49, CH_e, 50>>, <<CH_0, CH_DOT, 49, CH_0, CH_e, 50>>,
      <<CH_DOT>>, <<CH_PLUS>>, <<CH_PLUS, CH_DOT>>, <<CH_TAB, CH_MINUS, CH_DOT, CH_NL>>,
      <<CH_MINUS, 49>>, <<CH_DOT, 49>>, <<53, 49>>, <<CH_0, 49>>, <<CH_DOT, CH_0, 49>>,
      <<53, CH_DOT, 49>>, <<57, CH_DOT, 52>>, <<49, CH_e, 49>>, <<49, CH_e, CH_MINUS, 49>>,
      <<CH_SPACE, 53>>, <<53, CH_SPACE>>, <<49, CH_SPACE, 53>>,
      <<CH_MINUS, CH_SPACE, 53>>, <<CH_SPACE, CH_DOT, CH_SPACE>>, <<49, CH_e, CH_SPACE>>,
      <<CH_PLUS, 49, CH_DOT, 53, CH_UE, CH_PLUS, 49>>,
      <<49, CH_e, 57, 57, 57>>, <<49, CH_e, CH_MINUS, 57, 57, 57>>,
      <<CH_MINUS, 53, CH_e, 49, 50, 56>>, <<53, CH_e, CH_MINUS, 49, 50, 57>>,
      <<57, CH_DOT, 57, 57>>, <<CH_MINUS, 57, 57, CH_DOT, 57, 53>>,
      <<49, CH_DOT, 50, 120>>, <<49, CH_e, 50, CH_e, 51>>, <<49, CH_DOT, 50, CH_DOT, 51>>,
      <<49, CH_e, 57, 57, 57, 120>>, <<49, CH_e, 57, 57, 57, CH_e, 53>>,
      <<49, CH_e, 57, 57, 57, CH_DOT, 53>>, <<49, CH_e, CH_MINUS, 57, 57, 57, CH_UE>>,
      <<49, CH_e, 49, 50, 120>>, <<49, CH_e, 53, CH_SPACE, 53>>, <<49, CH_UE, CH_PLUS>>,
      <<49, CH_e, 53, CH_DOT, 53>>, <<49, CH_e, 53, CH_MINUS>>,
      <<49, CH_e, 49, 50, 55>>, <<49, CH_e, 49, 50, 56>>, <<49, CH_e, CH_MINUS, 49, 50, 56>>,
      <<49, CH_MINUS, 50>>, <<49, CH_DOT, CH_PLUS, 50>>, <<49, CH_TAB, 50>>,
      <<CH_MINUS>>, <<CH_MINUS, CH_MINUS>>, <<53, CH_MINUS>>, <<CH_e, CH_MINUS>>,
      <<53, CH_e, CH_MINUS>>, <<CH_0, CH_e, CH_MINUS>>, <<CH_MINUS, 53, CH_e, CH_MINUS>> }
    \cup LongLiterals

(* Decimal types (type_precision, type_scale) a call is made with. *)
ExampleTypes == {<<6, 2>>, <<5, 0>>, <<5, 2>>}

DecTypes(str) ==
    {<<tp, ts>> \in (1..MaxPrecision) \X (0..MaxPrecision) : ts <= tp}
        \cup (IF Len(str) > MaxDecLen THEN ExampleTypes ELSE {})

(* The values a call may return after undefined behaviour. *)
UndefinedValues == {MinOf(DecimalBits), 0 - 1, 0, 1, MaxOf(DecimalBits)}

InitDecimal == s \in DecSeeds /\ Idle

TypeDecChar ==
    /\ pc = "input"
    /\ Len(s) < MaxDecLen
    /\ \E c \in DecAlphabet : s' = Append(s, c)
    /\ UNCHANGED <<fval, pc, fn, bits, base, type_precision, type_scale, round, raw, result, value, ub>>

CallStringToDecimal ==
    /\ pc = "input"
    /\ \E t \in DecTypes(s), rnd \in BOOLEAN :
          LET r == StringToDecimal(s, t[1], t[2], rnd)
          IN  /\ type_precision' = t[1]
              /\ type_scale' = t[2]
              /\ round' = rnd
              /\ result' = r.result
              /\ ub' = r.undefined
              /\ value' \in (IF r.undefined THEN UndefinedValues ELSE {r.value})
    /\ bits' = DecimalBits
    /\ fn' = "StringToDecimal"
    /\ pc' = "done"
    /\ UNCHANGED <<fval, s, base, raw>>

NextDecimal == TypeDecChar \/ CallStringToDecimal

SpecDecimal == InitDecimal /\ [][NextDecimal]_vars

(* The canonical rendering of a raw decimal value v with ts fractional        *)
(* digits: optional '-', integer part, and ts digits after a '.' if ts > 0.   *)
RECURSIVE ToDigits(_, _)
ToDigits(n, width) ==
    IF n < 10 /\ width <= 1 THEN <<CH_0 + n>>
    ELSE ToDigits(n \div 10, width - 1) \o <<CH_0 + (n % 10)>>

FormatDecimal(v, ts) ==
    LET m == IF v < 0 THEN 0 - v ELSE v
        d == ToDigits(m, ts + 1)
        n == Len(d)
    IN  (IF v < 0 THEN <<CH_MINUS>> ELSE <<>>)
        \o SubSeq(d, 1, n - ts)
        \o (IF ts > 0 THEN <<CH_DOT>> \o SubSeq(d, n - ts + 1, n) ELSE <<>>)

(* Round trip: a raw value is rendered and the rendering is parsed. *)
InitRoundTrip ==
    /\ pc = "format"
    /\ s = <<>>
    /\ fn = "none"
    /\ bits = DecimalBits
    /\ base = 0
    /\ type_precision \in 1..MaxPrecision
    /\ type_scale \in 0..type_precision
    /\ round \in BOOLEAN
    /\ raw \in (1 - GetScaleMultiplier(type_precision))..(GetScaleMultiplier(type_precision) - 1)
    /\ fval = FloatZero
    /\ result = NO_RESULT
    /\ value = 0
    /\ ub = FALSE

FormatRaw ==
    /\ pc = "format"
    /\ s' = FormatDecimal(raw, type_scale)
    /\ pc' = "formatted"
    /\ UNCHANGED <<fval, fn, bits, base, type_precision, type_scale, round, raw, result, value, ub>>

ParseFormatted ==
    /\ pc = "formatted"
    /\ LET r == StringToDecimal(s, type_precision, type_scale, round)
       IN  /\ result' = r.result
           /\ ub' = r.undefined
           /\ value' \in (IF r.undefined THEN UndefinedValues ELSE {r.value})
    /\ fn' = "StringToDecimal"
    /\ pc' = "reparsed"
    /\ UNCHANGED <<fval, s, bits, base, type_precision, type_scale, round, raw>>

NextRoundTrip == FormatRaw \/ ParseFormatted

SpecRoundTrip == InitRoundTrip /\ [][NextRoundTrip]_vars


----------------------------------------------------------------------------
(* StringToInt(s, len, base, result) called with a base outside 2..36.  The   *)
(* parser has no test of base: line 340 divides by it as soon as the span is  *)
(* not empty, and a division by zero is undefined behaviour.                   *)
MaxAnyBaseLen == 3

OutOfRangeBases == {0 - 1, 0, 1, 37}

AnyBaseAlphabet == {CH_0, 49, CH_z, CH_UZ, CH_MINUS, CH_SPACE, 33}

AnyBaseSeeds == { <<>>, <<CH_SPACE, CH_TAB>>, <<CH_PLUS>>, <<CH_0, CH_0, CH_0, CH_0>> }

(* Lines 327-341: max_val / base is evaluated for every non-empty span. *)
DividesByZero(str, b) == b = 0 /\ Len(str) > 0

(* What a call may report after undefined behaviour. *)
UndefinedResults == {PARSE_SUCCESS, PARSE_FAILURE, PARSE_OVERFLOW}

InitAnyBase == s \in AnyBaseSeeds /\ Idle

TypeAnyBaseChar ==
    /\ pc = "input"
    /\ Len(s) < MaxAnyBaseLen
    /\ \E c \in AnyBaseAlphabet : s' = Append(s, c)
    /\ UNCHANGED <<fval, pc, fn, bits, base, type_precision, type_scale, round, raw, result, value, ub>>

CallStringToIntAnyBase ==
    /\ pc = "input"
    /\ \E w \in IntWidths, b \in OutOfRangeBases :
          /\ bits' = w
          /\ base' = b
          /\ IF DividesByZero(s, b)
             THEN /\ ub' = TRUE
                  /\ result' \in UndefinedResults
                  /\ value' \in {MinOf(w), 0, MaxOf(w)}
             ELSE LET r == StringToIntBase(w, s, b)
                  IN  /\ ub' = FALSE
                      /\ result' = r.result
                      /\ value' = r.value
    /\ fn' = "StringToIntBase"
    /\ pc' = "done"
    /\ UNCHANGED <<fval, s, type_precision, type_scale, round, raw>>

NextAnyBase == TypeAnyBaseChar \/ CallStringToIntAnyBase

SpecAnyBase == InitAnyBase /\ [][NextAnyBase]_vars


----------------------------------------------------------------------------
(* StringToFloat<double>.  Characters of the words the parser looks for. *)
CH_i == 105
CH_n == 110
CH_y == 121

tolower(c) == IF c >= CH_UA /\ c <= CH_UZ THEN c + 32 ELSE c

(* strncasecmp(s, word, n) for a span of at least n characters: 0 on a match. *)
strncasecmp(str, word, n) ==
    IF \A k \in 1..n : tolower(str[k]) = word[k] THEN 0 ELSE 1

IsInfinity_short(str) ==
    IF Len(str) >= 3 /\ strncasecmp(str, <<CH_i, CH_n, CH_f>>, 3) = 0
    THEN IsAllWhitespace(From(str, 3))
    ELSE FALSE

(* StringParser::IsInfinity(s, len) *)
IsInfinity(str) ==
    IF Len(str) >= 3 /\ strncasecmp(str, <<CH_i, CH_n, CH_f>>, 3) = 0
    THEN LET i == IF Len(str) >= 8
                       /\ strncasecmp(From(str, 3), <<CH_i, CH_n, CH_i, CH_t, CH_y>>, 5) = 0
                  THEN 8 ELSE 3
         IN  IsAllWhitespace(From(str, i))
    ELSE FALSE

(* StringParser::IsNaN(s, len) *)
IsNaN(str) ==
    /\ Len(str) >= 3
    /\ strncasecmp(str, <<CH_n, CH_a, CH_n>>, 3) = 0
    /\ IsAllWhitespace(From(str, 3))

(* The largest finite double is 1.79769313486231570...e308. *)
DBL_MAX_10_EXP == 308
DBL_MAX_LEAD == 179769313

RECURSIVE NumDigits(_)
NumDigits(n) == IF n < 10 THEN 1 ELSE 1 + NumDigits(n \div 10)

(* mant * 10^exp10 is above the largest finite double and converts to         *)
(* infinity (mant has at most 9 digits).                                       *)
IsHuge(mant, exp10) ==
    /\ mant > 0
    /\ LET d == NumDigits(mant)
       IN  \/ d + exp10 > DBL_MAX_10_EXP + 1
           \/ d + exp10 = DBL_MAX_10_EXP + 1 /\ mant * (10 ^ (9 - d)) > DBL_MAX_LEAD

(* The double nearest to mant * 10^exp10. *)
ToDouble(mant, exp10) ==
    IF IsHuge(mant, exp10) THEN Float("inf", FALSE, 0, 0)
    ELSE Float("finite", FALSE, mant, IF mant = 0 THEN 0 ELSE exp10)

Negate(f) == [f EXCEPT !.negative = ~f.negative]

(* The number of decimal digits of str from index i (0-based) on. *)
RECURSIVE DigitRun(_, _)
DigitRun(str, i) ==
    IF i < Len(str) /\ IsDigit(str[i + 1]) THEN 1 + DigitRun(str, i + 1) ELSE 0

(* The value of the digits of str at the 0-based indices i .. i + n - 1,      *)
(* continuing from acc and saturating at cap.                                  *)
RECURSIVE DigitsFrom(_, _, _, _, _)
DigitsFrom(str, i, n, acc, cap) ==
    IF n = 0 THEN acc
    ELSE LET next == acc * 10 + (str[i + 1] - CH_0)
         IN  DigitsFrom(str, i + 1, n - 1, IF next > cap THEN cap ELSE next, cap)

MantissaCap == 999999999
ExponentCap == 99999

(* The character at the 0-based index p of str is a sign, a '-', a '.', an    *)
(* exponent marker.                                                            *)
SignAt(str, p) == p < Len(str) /\ (str[p + 1] = CH_PLUS \/ str[p + 1] = CH_MINUS)

MinusAt(str, p) == p < Len(str) /\ str[p + 1] = CH_MINUS

DotAt(str, p) == p < Len(str) /\ str[p + 1] = CH_DOT

MarkerAt(str, p) == p < Len(str) /\ (str[p + 1] = CH_e \/ str[p + 1] = CH_UE)

(* The result of strtod: ndigits mantissa digits of value mant, nfrac of them *)
(* after the '.', ending at pm; nexp exponent digits from pe on.               *)
StrtodValue(c_str, minus, ndigits, nfrac, mant, pm, pe, nexp) ==
    LET e == DigitsFrom(c_str, pe, nexp, 0, ExponentCap)
        exponent == IF nexp = 0 THEN 0 ELSE IF MinusAt(c_str, pm + 1) THEN 0 - e ELSE e
        val == ToDouble(mant, exponent - nfrac)
    IN  IF ndigits = 0 THEN [val |-> FloatZero, end |-> 0]
        ELSE [val |-> IF minus THEN Negate(val) ELSE val,
              end |-> IF nexp > 0 THEN pe + nexp ELSE pm]

(* The exponent part: a marker at pm, an optional sign, the digits. *)
StrtodExponent(c_str, minus, ndigits, nfrac, mant, pm) ==
    LET pe == IF MarkerAt(c_str, pm) /\ SignAt(c_str, pm + 1) THEN pm + 2 ELSE pm + 1
    IN  StrtodValue(c_str, minus, ndigits, nfrac, mant, pm, pe,
                    IF MarkerAt(c_str, pm) THEN DigitRun(c_str, pe) ELSE 0)

(* The mantissa: nint digits from p1 on, an optional '.', the digits after it. *)
StrtodMantissa(c_str, minus, p1, nint) ==
    LET nfrac == IF DotAt(c_str, p1 + nint) THEN DigitRun(c_str, p1 + nint + 1) ELSE 0
    IN  StrtodExponent(c_str, minus, nint + nfrac, nfrac,
                       DigitsFrom(c_str, p1 + nint + 1, nfrac,
                                  DigitsFrom(c_str, p1, nint, 0, MantissaCap), MantissaCap),
                       p1 + nint + (IF DotAt(c_str, p1 + nint) THEN 1 + nfrac ELSE 0))

(* After the leading whitespace, at p0: an optional sign, then the mantissa. *)
StrtodSign(c_str, p0, p1) == StrtodMantissa(c_str, MinusAt(c_str, p0), p1, DigitRun(c_str, p1))

(* strtod(c_str, &s_end) of the C library on a decimal floating literal:      *)
(* optional whitespace and sign, digits with an optional '.', at least one    *)
(* digit, then an optional exponent part that needs at least one digit.       *)
(* val is the value, end the number of characters consumed (0 when there is   *)
(* no conversion).  The spans the parser hands over start with digits or a    *)
(* '.', so the "inf", "nan" and hexadecimal forms of strtod cannot match.      *)
strtod(c_str) ==
    LET p0 == SkipLeadingWhitespace(c_str)
    IN  StrtodSign(c_str, p0, IF SignAt(c_str, p0) THEN p0 + 1 ELSE p0)

(* Lines 473-504: the scan loop from index i on.  val is the integer part,    *)
(* remainder the fraction digits, divide = 10^frac; stop says how the loop    *)
(* ended: "end" (i = len), "marker" ('e' or 'E' at i), "space" (whitespace to *)
(* the end from i on) or "fail" (lines 495-499).                               *)
RECURSIVE FloatLoop(_, _, _, _)
FloatLoop(str, i, first, st) ==
    IF i >= Len(str) THEN [st EXCEPT !.i = i, !.stop = "end"]
    ELSE LET c == str[i + 1]
         IN  IF IsDigit(c)
             THEN LET sig_figs == IF c # CH_0 \/ st.sig_figs > 0
                                  THEN st.sig_figs + 1 ELSE st.sig_figs
                      kept == st.decimal /\ sig_figs <= 18
                  IN  FloatLoop(str, i + 1, first,
                          [st EXCEPT
                             !.sig_figs = sig_figs,
                             !.remainder = IF kept THEN st.remainder * 10 + (c - CH_0)
                                           ELSE st.remainder,
                             !.frac = IF kept THEN st.frac + 1 ELSE st.frac,
                             !.val = IF st.decimal THEN st.val
                                     ELSE st.val * 10 + (c - CH_0)])
             ELSE IF ~st.decimal /\ c = CH_DOT
             THEN FloatLoop(str, i + 1, first, [st EXCEPT !.decimal = TRUE])
             ELSE IF c = CH_e \/ c = CH_UE
             THEN [st EXCEPT !.i = i, !.stop = "marker"]
             ELSE IF i = first \/ ~IsAllWhitespace(From(str, i))
             THEN [st EXCEPT !.i = i, !.stop = "fail"]
             ELSE [st EXCEPT !.i = i, !.stop = "space"]

(* Lines 528-534: the status of a converted value, and the sign. *)
FloatFinish(val, negative) ==
    Ret(IF val.kind = "inf" THEN PARSE_OVERFLOW ELSE PARSE_SUCCESS,
        IF negative THEN Negate(val) ELSE val)

(* As FloatFallback, without the test of what strtod left unread. *)
FloatFallback_unchecked(str, negative) ==
    FloatFinish(strtod(From(str, IF negative THEN 1 ELSE 0)).val, negative)

(* Lines 508-526: the text from after a '-' on goes to strtod. *)
FloatFallback(str, negative) ==
    LET c_str == From(str, IF negative THEN 1 ELSE 0)
        conv == strtod(c_str)
    IN  IF conv.end # Len(c_str) /\ ~IsAllWhitespace(From(c_str, conv.end))
        THEN Ret(PARSE_FAILURE, conv.val)
        ELSE FloatFinish(conv.val, negative)

(* StringToFloatInternal<double>(s, len, result) *)
StringToFloatInternal(str) ==
    IF Len(str) <= 0 THEN Ret(PARSE_FAILURE, FloatZero)
    ELSE LET negative == str[1] = CH_MINUS
             i == IF str[1] = CH_MINUS \/ str[1] = CH_PLUS THEN 1 ELSE 0
         IN  IF IsInfinity(From(str, i))
             THEN Ret(PARSE_SUCCESS, Float("inf", negative, 0, 0))
             ELSE IF IsNaN(From(str, i))
             THEN Ret(PARSE_SUCCESS, Float("nan", negative, 0, 0))
             ELSE LET st == FloatLoop(str, i, i,
                                [i |-> i, stop |-> "run", val |-> 0, remainder |-> 0,
                                 frac |-> 0, decimal |-> FALSE, sig_figs |-> 0])
                  IN  IF st.stop = "fail" THEN Ret(PARSE_FAILURE, FloatZero)
                      ELSE IF st.stop = "marker" THEN FloatFallback(str, negative)
                      ELSE FloatFinish(ToDouble(st.val * (10 ^ st.frac) + st.remainder,
                                                0 - st.frac), negative)

(* StringToFloat<double>(s, len, result) *)
StringToFloat(str) ==
    LET first == StringToFloatInternal(str)
    IN  IF first.result = PARSE_SUCCESS THEN first
        ELSE StringToFloatInternal(From(str, SkipLeadingWhitespace(str)))

(* Inputs of the floating-point parser. *)
MaxFloatLen == 4

FloatAlphabet == {CH_0, 53, CH_DOT, CH_e, CH_MINUS, CH_SPACE, CH_n, 120}

FloatSeeds ==
    { <<>>, <<CH_PLUS>>, <<CH_DOT>>, <<CH_i, CH_n>>, <<CH_n, CH_a>>,
      <<CH_i, CH_n, CH_f>>, <<73, 78, 70>>, <<CH_n, CH_a, CH_n>>, <<78, CH_a, 78>>,
      <<CH_MINUS, CH_n, CH_a, CH_n>>, <<CH_PLUS, CH_i, CH_n, CH_f>>,
      <<CH_TAB, CH_i, CH_n, CH_f>>, <<CH_PLUS, CH_SPACE, CH_i, CH_n, CH_f>>,
      <<CH_MINUS, 73, CH_n, CH_f, CH_i, CH_n, CH_i, CH_t, CH_y>>,
      <<CH_SPACE, CH_PLUS, CH_i, CH_n, CH_f, CH_i, CH_n, CH_i, CH_t, CH_y, CH_SPACE, CH_NL>>,
      <<CH_i, CH_n, CH_f, CH_i, CH_n>>, <<CH_i, CH_n, CH_f, CH_i, CH_n, CH_i, CH_t>>,
      <<CH_i, CH_n, CH_f, CH_i, CH_n, CH_i, CH_t, CH_y, 120>>,
      <<CH_i, CH_n, CH_f, CH_SPACE, CH_i, CH_n, CH_i, CH_t, CH_y>>,
      <<CH_i, CH_n, CH_f, CH_i, CH_n, CH_i, CH_t, CH_y, CH_SPACE, 120>>,
      <<CH_n, CH_a, CH_n, 120>>, <<CH_n, CH_a, CH_n, CH_SPACE, CH_TAB>>,
      <<49, CH_e>>, <<CH_e, 53>>, <<49, CH_e, 53, 120>>, <<49, CH_e, 50, CH_e, 51>>,
      <<49, CH_e, 53>>, <<CH_SPACE, 49, CH_e, 53, CH_SPACE>>, <<49, CH_UE, CH_PLUS, 53>>,
      <<CH_MINUS, 49, CH_DOT, 53, CH_e, CH_MINUS, 51>>, <<CH_PLUS, 49, CH_e, 53>>,
      <<49, CH_e, 57, 57, 57>>, <<CH_MINUS, 49, CH_e, 57, 57, 57>>,
      <<49, CH_e, CH_MINUS, 57, 57, 57>>, <<50, CH_e, 51, CH_0, 56>>,
      <<49, CH_e, 51, CH_0, 56>>, <<49, CH_e, CH_PLUS>>, <<49, CH_e, 53, CH_SPACE, 120>>,
      <<49, CH_DOT, 53, CH_DOT, 50>>, <<CH_DOT, CH_e, 53>>, <<CH_0, 120, 49, CH_e, 53>>,
      <<49, CH_SPACE, CH_e, 53>>, <<49, CH_e, 53, CH_DOT, 50>>, <<49, CH_DOT, 53>> }

InitFloat == s \in FloatSeeds /\ Idle

TypeFloatChar ==
    /\ pc = "input"
    /\ Len(s) < MaxFloatLen
    /\ \E c \in FloatAlphabet : s' = Append(s, c)
    /\ UNCHANGED <<pc, fn, bits, base, type_precision, type_scale, round, raw, result, value, fval, ub>>

CallStringToFloat ==
    /\ pc = "input"
    /\ LET r == StringToFloat(s)
       IN  /\ result' = r.result
           /\ fval' = r.value
    /\ bits' = 64
    /\ fn' = "StringToFloat"
    /\ pc' = "done"
    /\ UNCHANGED <<s, base, type_precision, type_scale, round, raw, value, ub>>

NextFloat == TypeFloatChar \/ CallStringToFloat

SpecFloat == InitFloat /\ [][NextFloat]_vars


----------------------------------------------------------------------------
(* The local variables of StringToDecimal that its DCHECKs speak about.       *)

(* Lines 159-199: the loop variables st when the scan loop is left, whether   *)
(* the call goes on to the classification of lines 201-255 (the loop ran to   *)
(* the end, or met a marker whose exponent text parsed), and the exponent.    *)
DecimalScanLoop(str, tp, rnd, found_value, found_dot, digits_after_dot_count) ==
    LET start == [i |-> 0, stop |-> "run", found_value |-> found_value,
                  found_dot |-> found_dot, total_digits_count |-> 0,
                  digits_after_dot_count |-> digits_after_dot_count,
                  first_truncated_digit |-> 0, value |-> 0]
        st == DecimalIterate(start, str, tp, rnd, 0, Len(str))
        e == ParseExponent(str, st.i)
    IN  [st |-> st,
         classified |-> st.stop = "run" \/ (st.stop = "exponent" /\ e.result = PARSE_SUCCESS),
         exponent |-> IF st.stop = "exponent" THEN e.value ELSE 0]

(* Lines 114-199: the same for the whole input, after the trimming, the sign  *)
(* and the skipped zeros.                                                      *)
DecimalScan(str0, tp, rnd) ==
    LET lead == From(str0, SkipLeadingWhitespace(str0))
        trimmed == SubSeq(lead, 1, TrimTrailingLoop(lead, Len(lead)))
        unsigned == IF Len(trimmed) > 0 /\ (trimmed[1] = CH_MINUS \/ trimmed[1] = CH_PLUS)
                    THEN From(trimmed, 1) ELSE trimmed
        zeros == LeadingZeros(unsigned, 0)
        afterZeros == From(unsigned, zeros)
        found_dot == IF Len(afterZeros) > 0 /\ afterZeros[1] = CH_DOT THEN 1 ELSE 0
        afterDot == From(afterZeros, found_dot)
        dotZeros == AfterDotZeros(afterDot, found_dot)
        rest == From(afterDot, IF found_dot = 1 THEN LeadingZeros(afterDot, 0) ELSE 0)
        found_value == zeros > 0 \/ (found_dot = 1 /\ LeadingZeros(afterDot, 0) > 0)
    IN  DecimalScanLoop(rest, tp, rnd, found_value, found_dot, dotZeros)

(* Lines 201-244: the locals of the classification.  branch is "overflow"     *)
(* (line 210), "scale_down" (shift > 0, lines 222-226), "round" (the else of  *)
(* line 227) or "other"; before and after are value on entry to the Underflow *)
(* branch and after its scaling down or rounding.                              *)
DecimalLocals(tp, ts, rnd, st, exponent) ==
    LET truncated_digit_count ==
            IF st.total_digits_count - tp > 0 THEN st.total_digits_count - tp ELSE 0
        ae == ApplyExponent(st.total_digits_count, st.digits_after_dot_count, exponent,
                            st.value)
        shift == (ae.scale - truncated_digit_count) - ts
    IN  [precision |-> ae.precision,
         scale |-> ae.scale,
         truncated_digit_count |-> truncated_digit_count,
         shift |-> shift,
         first_truncated_digit |-> st.first_truncated_digit,
         branch |-> IF ae.precision - ae.scale > tp - ts THEN "overflow"
                    ELSE IF ae.scale > ts
                    THEN (IF shift > 0 THEN "scale_down" ELSE "round")
                    ELSE "other",
         before |-> ae.value,
         after |-> IF shift > 0 THEN ScaleDownAndRound(ae.value, shift, rnd)
                   ELSE ae.value + RoundUp(st.first_truncated_digit)]


----------------------------------------------------------------------------
(* The memory accesses and the control steps of a call, in program order.     *)
(* A pointer into the input is its offset off from the s the entry point was  *)
(* given, a span is (off, len).  An event is a record:                         *)
(*   "read":   the byte at offset at is read;                                  *)
(*   "loop":   the loop called name is entered with its index at at;           *)
(*   "iter":   one iteration of loop name runs with index at;                  *)
(*   "shrink": one iteration of loop name runs with len remaining at at;       *)
(*   "call":   the function name is called on the span (at, len).              *)
Ev(kind, name, at, len) == [kind |-> kind, name |-> name, at |-> at, len |-> len]

Rd(at) == Ev("read", "", at, 0)

(* The byte at offset i.  Outside the span the parser would see memory that   *)
(* is not its input: the model hands it a NUL byte.  The first read outside   *)
(* the span is logged before any such byte can steer the parser.               *)
Byte(str, i) == IF 0 <= i /\ i < Len(str) THEN str[i + 1] ELSE 0

(* The bytes of the span (off, len), as the callee sees them. *)
Span(str, off, len) == [k \in 1..(IF len > 0 THEN len ELSE 0) |-> Byte(str, off + k - 1)]

(* IsAllWhitespace(s, len): for (i = 0; i < len; ++i) if (!IsWhitespace(s[i])) return false *)
RECURSIVE LogAllWhitespaceLoop(_, _, _, _)
LogAllWhitespaceLoop(str, off, len, i) ==
    IF i >= len THEN <<>>
    ELSE <<Ev("iter", "IsAllWhitespace", i, 0), Rd(off + i)>>
         \o (IF IsWhitespace(Byte(str, off + i))
             THEN LogAllWhitespaceLoop(str, off, len, i + 1) ELSE <<>>)

LogIsAllWhitespace(str, off, len) ==
    <<Ev("call", "IsAllWhitespace", off, len), Ev("loop", "IsAllWhitespace", 0, 0)>>
    \o LogAllWhitespaceLoop(str, off, len, 0)

(* SkipLeadingWhitespace(s, len): while (i < len && IsWhitespace(s[i])) ++i *)
RECURSIVE LogSkipLoop(_, _, _, _)
LogSkipLoop(str, off, len, i) ==
    IF i >= len THEN <<>>
    ELSE <<Rd(off + i)>>
         \o (IF IsWhitespace(Byte(str, off + i))
             THEN <<Ev("iter", "SkipLeadingWhitespace", i, 0)>>
                  \o LogSkipLoop(str, off, len, i + 1)
             ELSE <<>>)

LogSkipLeadingWhitespace(str, off, len) ==
    <<Ev("call", "SkipLeadingWhitespace", off, len), Ev("loop", "SkipLeadingWhitespace", 0, 0)>>
    \o LogSkipLoop(str, off, len, 0)

(* StringToIntNoOverflow (lines 582-610) *)
RECURSIVE LogNoOverflowLoop(_, _, _, _)
LogNoOverflowLoop(str, off, len, i) ==
    IF i >= len THEN <<>>
    ELSE <<Ev("iter", "StringToIntNoOverflow", i, 0), Rd(off + i)>>
         \o (IF IsDigit(Byte(str, off + i))
             THEN LogNoOverflowLoop(str, off, len, i + 1)
             ELSE LogIsAllWhitespace(str, off + i, len - i))

LogStringToIntNoOverflow(str, off, len) ==
    <<Ev("call", "StringToIntNoOverflow", off, len)>>
    \o (IF len = 0 THEN <<>>
        ELSE <<Rd(off)>>
             \o (IF IsDigit(Byte(str, off))
                 THEN <<Ev("loop", "StringToIntNoOverflow", 1, 0)>>
                      \o LogNoOverflowLoop(str, off, len, 1)
                 ELSE <<>>))

(* The checked loop of StringToIntInternal<T>(s, len, result), lines 291-313. *)
RECURSIVE LogCheckedLoop(_, _, _, _, _, _, _, _)
LogCheckedLoop(w, str, off, len, i, first, val, max_val) ==
    IF i >= len THEN <<>>
    ELSE <<Ev("iter", "StringToIntInternal", i, 0), Rd(off + i)>>
         \o (IF IsDigit(Byte(str, off + i))
             THEN LET digit == Byte(str, off + i) - CH_0
                  IN  IF val > max_val \div 10 - (IF digit > max_val % 10 THEN 1 ELSE 0)
                      THEN <<>>
                      ELSE LogCheckedLoop(w, str, off, len, i + 1, first,
                                          ToUnsigned(w, val * 10 + digit), max_val)
             ELSE IF i = first THEN <<>>
             ELSE LogIsAllWhitespace(str, off + i, len - i))

(* StringToIntInternal<T>(s, len, result), lines 264-316 *)
LogStringToIntInternal(w, str, off, len) ==
    <<Ev("call", "StringToIntInternal", off, len)>>
    \o (IF len <= 0 THEN <<>>
        ELSE LET c == Byte(str, off)
                 i == IF c = CH_MINUS \/ c = CH_PLUS THEN 1 ELSE 0
                 max_val == IF c = CH_MINUS THEN MaxOf(w) + 1 ELSE MaxOf(w)
             IN  <<Rd(off)>>
                 \o (IF len - i < max_ascii_len(w)
                     THEN LogStringToIntNoOverflow(str, off + i, len - i)
                     ELSE <<Ev("loop", "StringToIntInternal", i, 0)>>
                          \o LogCheckedLoop(w, str, off, len, i, i, 0, max_val)))

(* StringToInt<T>(s, len, result), lines 61-68 *)
LogStringToInt(w, str) ==
    LET len == Len(str)
        i == SkipLeadingWhitespace(Span(str, 0, len))
    IN  LogStringToIntInternal(w, str, 0, len)
        \o (IF StringToIntInternal(w, Span(str, 0, len)).result = PARSE_SUCCESS THEN <<>>
            ELSE LogSkipLeadingWhitespace(str, 0, len)
                 \o LogStringToIntInternal(w, str, i, len - i))

(* The loop of StringToIntInternal<T>(s, len, base, result), lines 344-374. *)
RECURSIVE LogBaseLoop(_, _, _, _, _, _, _, _, _)
LogBaseLoop(w, str, off, len, b, i, first, val, max_val) ==
    IF i >= len THEN <<>>
    ELSE LET digit == DigitOf(Byte(str, off + i))
         IN  <<Ev("iter", "StringToIntInternalBase", i, 0), Rd(off + i)>>
             \o (IF digit = NoDigit
                 THEN (IF i = first THEN <<>> ELSE LogIsAllWhitespace(str, off + i, len - i))
                 ELSE IF NotInBase(digit, b) THEN <<>>
                 ELSE IF val > max_val \div b - (IF digit > max_val % b THEN 1 ELSE 0)
                 THEN <<>>
                 ELSE LogBaseLoop(w, str, off, len, b, i + 1, first,
                                  ToUnsigned(w, val * b + digit), max_val))

(* StringToIntInternal<T>(s, len, base, result), lines 320-376 *)
LogStringToIntInternalBase(w, str, off, len, b) ==
    <<Ev("call", "StringToIntInternalBase", off, len)>>
    \o (IF len <= 0 THEN <<>>
        ELSE LET c == Byte(str, off)
                 i == IF c = CH_MINUS \/ c = CH_PLUS THEN 1 ELSE 0
                 max_val == IF c = CH_MINUS THEN MaxOf(w) + 1 ELSE MaxOf(w)
             IN  <<Rd(off), Ev("loop", "StringToIntInternalBase", i, 0)>>
                 \o LogBaseLoop(w, str, off, len, b, i, i, 0, max_val))

(* StringToInt<T>(s, len, base, result), lines 71-79 *)
LogStringToIntBase(w, str, b) ==
    LET len == Len(str)
        i == SkipLeadingWhitespace(Span(str, 0, len))
    IN  LogStringToIntInternalBase(w, str, 0, len, b)
        \o (IF StringToIntInternalBase(w, Span(str, 0, len), b).result = PARSE_SUCCESS
            THEN <<>>
            ELSE LogSkipLeadingWhitespace(str, 0, len)
                 \o LogStringToIntInternalBase(w, str, i, len - i, b))


(* A chain of character comparisons joined by && (lines 542-548), or a        *)
(* strncasecmp against word (lines 409-424): the characters from the k-th on  *)
(* are read one by one until one differs from the word.                        *)
RECURSIVE LogMatchWord(_, _, _, _)
LogMatchWord(str, off, word, k) ==
    IF k > Len(word) THEN <<>>
    ELSE <<Rd(off + k - 1)>>
         \o (IF tolower(Byte(str, off + k - 1)) = word[k]
             THEN LogMatchWord(str, off, word, k + 1) ELSE <<>>)

MatchesWord(str, off, word) == \A k \in 1..Len(word) : tolower(Byte(str, off + k - 1)) = word[k]

(* StringToBoolInternal(s, len, result), lines 539-553 *)
LogStringToBoolInternal(str, off, len) ==
    <<Ev("call", "StringToBoolInternal", off, len)>>
    \o (IF len >= 4
        THEN <<Rd(off)>>
             \o (IF tolower(Byte(str, off)) = CH_t
                 THEN LogMatchWord(str, off, <<CH_t, CH_r, CH_u, CH_e>>, 2)
                      \o (IF MatchesWord(str, off, <<CH_t, CH_r, CH_u, CH_e>>)
                          THEN LogIsAllWhitespace(str, off + 4, len - 4) ELSE <<>>)
                 ELSE IF len >= 5
                 THEN <<Rd(off)>>
                      \o (IF tolower(Byte(str, off)) = CH_f
                          THEN LogMatchWord(str, off, <<CH_f, CH_a, CH_l, CH_s, CH_e>>, 2)
                               \o (IF MatchesWord(str, off, <<CH_f, CH_a, CH_l, CH_s, CH_e>>)
                                   THEN LogIsAllWhitespace(str, off + 5, len - 5)
                                   ELSE <<>>)
                          ELSE <<>>)
                 ELSE <<>>)
        ELSE <<>>)

(* StringToBool calling the internal parser a second time whatever the first *)
(* call returned.                                                             *)
LogStringToBool_retry(str) ==
    LET len == Len(str)
        i == SkipLeadingWhitespace(Span(str, 0, len))
    IN  LogStringToBoolInternal(str, 0, len)
        \o LogSkipLeadingWhitespace(str, 0, len)
        \o LogStringToBoolInternal(str, i, len - i)

(* StringToBool(s, len, result), lines 91-97 *)
LogStringToBool(str) ==
    LET len == Len(str)
        i == SkipLeadingWhitespace(Span(str, 0, len))
    IN  LogStringToBoolInternal(str, 0, len)
        \o (IF StringToBoolInternal(Span(str, 0, len)).result = PARSE_SUCCESS THEN <<>>
            ELSE LogSkipLeadingWhitespace(str, 0, len)
                 \o LogStringToBoolInternal(str, i, len - i))

(* IsInfinity(s, len), lines 408-417 *)
LogIsInfinity(str, off, len) ==
    <<Ev("call", "IsInfinity", off, len)>>
    \o (IF len >= 3
        THEN LogMatchWord(str, off, <<CH_i, CH_n, CH_f>>, 1)
             \o (IF MatchesWord(str, off, <<CH_i, CH_n, CH_f>>)
                 THEN (IF len >= 8
                       THEN LogMatchWord(str, off + 3, <<CH_i, CH_n, CH_i, CH_t, CH_y>>, 1)
                       ELSE <<>>)
                      \o (IF len >= 8
                             /\ MatchesWord(str, off + 3, <<CH_i, CH_n, CH_i, CH_t, CH_y>>)
                          THEN LogIsAllWhitespace(str, off + 8, len - 8)
                          ELSE LogIsAllWhitespace(str, off + 3, len - 3))
                 ELSE <<>>)
        ELSE <<>>)

(* IsNaN with the comparison made before the length is looked at. *)
LogIsNaN_unguarded(str, off, len) ==
    <<Ev("call", "IsNaN", off, len)>>
    \o LogMatchWord(str, off, <<CH_n, CH_a, CH_n>>, 1)
    \o (IF len >= 3 /\ MatchesWord(str, off, <<CH_n, CH_a, CH_n>>)
        THEN LogIsAllWhitespace(str, off + 3, len - 3) ELSE <<>>)

(* IsNaN(s, len), lines 423-425 *)
LogIsNaN(str, off, len) ==
    <<Ev("call", "IsNaN", off, len)>>
    \o (IF len >= 3
        THEN LogMatchWord(str, off, <<CH_n, CH_a, CH_n>>, 1)
             \o (IF MatchesWord(str, off, <<CH_n, CH_a, CH_n>>)
                 THEN LogIsAllWhitespace(str, off + 3, len - 3) ELSE <<>>)
        ELSE <<>>)

(* IsAllWhitespace(s_end, trailing_len) on the local copy c_str (line 521):   *)
(* its reads are of the copy, not of the input.                                *)
RECURSIVE LogCopyWhitespaceLoop(_, _)
LogCopyWhitespaceLoop(tail, i) ==
    IF i >= Len(tail) THEN <<>>
    ELSE <<Ev("iter", "IsAllWhitespace", i, 0)>>
         \o (IF IsWhitespace(tail[i + 1]) THEN LogCopyWhitespaceLoop(tail, i + 1) ELSE <<>>)

(* Lines 508-526: the copy of (s + negative, len - negative) into c_str reads *)
(* every byte of that span; strtod and the test of its tail work on the copy. *)
LogFloatFallback(str, off, len, negative) ==
    LET n == len - negative
        c_str == Span(str, off + negative, n)
        conv == strtod(c_str)
    IN  <<Ev("call", "memcpy", off + negative, n)>>
        \o [k \in 1..(IF n > 0 THEN n ELSE 0) |-> Rd(off + negative + k - 1)]
        \o <<Ev("call", "strtod", 0, n)>>
        \o (IF conv.end # n
            THEN <<Ev("call", "IsAllWhitespace", 0, n - conv.end),
                   Ev("loop", "IsAllWhitespace", 0, 0)>>
                 \o LogCopyWhitespaceLoop(From(c_str, conv.end), 0)
            ELSE <<>>)

(* Lines 473-506: the scan loop from index i on, then the test of s[i] of     *)
(* line 508 and the fallback.                                                  *)
RECURSIVE LogFloatLoop(_, _, _, _, _, _, _)
LogFloatLoop(str, off, len, i, first, decimal, negative) ==
    LET c == Byte(str, off + i)
        after == <<Rd(off + i)>>
                 \o (IF c = CH_e \/ c = CH_UE
                     THEN LogFloatFallback(str, off, len, negative) ELSE <<>>)
    IN  IF i >= len THEN <<>>
        ELSE <<Ev("iter", "StringToFloatInternal", i, 0), Rd(off + i)>>
             \o (IF IsDigit(c)
                 THEN LogFloatLoop(str, off, len, i + 1, first, decimal, negative)
                 ELSE IF ~decimal /\ c = CH_DOT
                 THEN LogFloatLoop(str, off, len, i + 1, first, TRUE, negative)
                 ELSE IF c = CH_e \/ c = CH_UE THEN after
                 ELSE IF i = first THEN <<>>
                 ELSE LogIsAllWhitespace(str, off + i, len - i)
                      \o (IF IsAllWhitespace(Span(str, off + i, len - i))
                          THEN after ELSE <<>>))

(* StringToFloatInternal<T>(s, len, result), lines 435-535 *)
LogStringToFloatInternal(str, off, len) ==
    <<Ev("call", "StringToFloatInternal", off, len)>>
    \o (IF len <= 0 THEN <<>>
        ELSE LET c == Byte(str, off)
                 negative == IF c = CH_MINUS THEN 1 ELSE 0
                 i == IF c = CH_MINUS \/ c = CH_PLUS THEN 1 ELSE 0
             IN  <<Rd(off)>>
                 \o LogIsInfinity(str, off + i, len - i)
                 \o (IF IsInfinity(Span(str, off + i, len - i)) THEN <<>>
                     ELSE LogIsNaN(str, off + i, len - i)
                          \o (IF IsNaN(Span(str, off + i, len - i)) THEN <<>>
                              ELSE <<Ev("loop", "StringToFloatInternal", i, 0)>>
                                   \o LogFloatLoop(str, off, len, i, i, FALSE, negative))))

(* StringToFloat<T>(s, len, result), lines 81-88 *)
LogStringToFloat(str) ==
    LET len == Len(str)
        i == SkipLeadingWhitespace(Span(str, 0, len))
    IN  LogStringToFloatInternal(str, 0, len)
        \o (IF StringToFloatInternal(Span(str, 0, len)).result = PARSE_SUCCESS THEN <<>>
            ELSE LogSkipLeadingWhitespace(str, 0, len)
                 \o LogStringToFloatInternal(str, i, len - i))


(* StringToDecimal, lines 164-199: the scan loop; at a marker the rest of the *)
(* span goes to StringToIntInternal<int8_t> (line 187) and the loop is left.  *)
RECURSIVE LogDecimalLoop(_, _, _, _, _)
LogDecimalLoop(str, off, len, i, found_dot) ==
    IF i >= len THEN <<>>
    ELSE LET c == Byte(str, off + i)
         IN  <<Ev("iter", "StringToDecimal", i, 0), Rd(off + i)>>
             \o (IF CH_0 <= c /\ c <= CH_9
                 THEN LogDecimalLoop(str, off, len, i + 1, found_dot)
                 ELSE IF AcceptsDot(c, found_dot)
                 THEN LogDecimalLoop(str, off, len, i + 1, 1)
                 ELSE IF c = CH_e \/ c = CH_UE
                 THEN LogStringToIntInternal(8, str, off + i + 1, len - i - 1)
                 ELSE <<>>)

LogDecimalScan(str, off, len, found_dot) ==
    <<Ev("loop", "StringToDecimal", 0, 0)>> \o LogDecimalLoop(str, off, len, 0, found_dot)

(* Lines 151-156: while (len > 0 && *s == '0') after the dot. *)
RECURSIVE LogDotZeros(_, _, _)
LogDotZeros(str, off, len) ==
    IF len > 0
    THEN <<Rd(off)>>
         \o (IF Byte(str, off) = CH_0
             THEN <<Ev("iter", "SkipDotZeros", off, len)>> \o LogDotZeros(str, off + 1, len - 1)
             ELSE LogDecimalScan(str, off, len, 1))
    ELSE LogDecimalScan(str, off, len, 1)

(* Lines 147-157: if (len > 0 && *s == '.') *)
LogDot(str, off, len) ==
    IF len > 0
    THEN <<Rd(off)>>
         \o (IF Byte(str, off) = CH_DOT
             THEN <<Ev("loop", "SkipDotZeros", off + 1, len - 1)>>
                  \o LogDotZeros(str, off + 1, len - 1)
             ELSE LogDecimalScan(str, off, len, 0))
    ELSE LogDecimalScan(str, off, len, 0)

(* Lines 136-140: while (len > 0 && *s == '0') *)
RECURSIVE LogZeros(_, _, _)
LogZeros(str, off, len) ==
    IF len > 0
    THEN <<Rd(off)>>
         \o (IF Byte(str, off) = CH_0
             THEN <<Ev("iter", "SkipZeros", off, len)>> \o LogZeros(str, off + 1, len - 1)
             ELSE LogDot(str, off, len))
    ELSE LogDot(str, off, len)

(* Lines 123-132: the sign. *)
LogSign(str, off, len) ==
    IF len > 0
    THEN <<Rd(off)>>
         \o (IF Byte(str, off) = CH_MINUS \/ Byte(str, off) = CH_PLUS
             THEN <<Ev("loop", "SkipZeros", off + 1, len - 1)>>
                  \o LogZeros(str, off + 1, len - 1)
             ELSE <<Ev("loop", "SkipZeros", off, len)>> \o LogZeros(str, off, len))
    ELSE <<Ev("loop", "SkipZeros", off, len)>> \o LogZeros(str, off, len)

(* Lines 119-121: while (len > 0 && IsWhitespace(s[len - 1])) --len *)
RECURSIVE LogTrimTrailing(_, _, _)
LogTrimTrailing(str, off, len) ==
    IF len > 0
    THEN <<Rd(off + len - 1)>>
         \o (IF IsWhitespace(Byte(str, off + len - 1))
             THEN <<Ev("shrink", "TrimTrailing", len, 0)>> \o LogTrimTrailing(str, off, len - 1)
             ELSE LogSign(str, off, len))
    ELSE LogSign(str, off, len)

(* Lines 115-118: while (len > 0 && IsWhitespace(s[0])) { ++s; --len; } *)
RECURSIVE LogTrimLeading(_, _, _)
LogTrimLeading(str, off, len) ==
    IF len > 0
    THEN <<Rd(off)>>
         \o (IF IsWhitespace(Byte(str, off))
             THEN <<Ev("iter", "TrimLeading", off, len)>> \o LogTrimLeading(str, off + 1, len - 1)
             ELSE <<Ev("loop", "TrimTrailing", len, 0)>> \o LogTrimTrailing(str, off, len))
    ELSE <<Ev("loop", "TrimTrailing", len, 0)>> \o LogTrimTrailing(str, off, len)

(* StringToDecimal<T>(s, len, type_precision, type_scale, round, result): the *)
(* classification after the loop reads no input.                               *)
LogStringToDecimal(str) ==
    <<Ev("call", "StringToDecimal", 0, Len(str)), Ev("loop", "TrimLeading", 0, Len(str))>>
    \o LogTrimLeading(str, 0, Len(str))

(* The events of the call a state that has returned was reached by. *)
LogOfCall(f, str, w, b) ==
    CASE f = "StringToInt" -> LogStringToInt(w, str)
      [] f = "StringToIntBase" -> LogStringToIntBase(w, str, b)
      [] f = "StringToBool" -> LogStringToBool(str)
      [] f = "StringToFloat" -> LogStringToFloat(str)
      [] f = "StringToDecimal" -> LogStringToDecimal(str)
      [] OTHER -> <<>>


----------------------------------------------------------------------------
(* Inputs on which every entry point is called. *)
MaxCallLen == 3

CallAlphabet == {49, CH_SPACE, CH_MINUS, CH_DOT, CH_e, CH_t}

CallSeeds ==
    { <<>>,
      <<CH_t, CH_r, CH_u, CH_e>>, <<CH_UT, CH_r, CH_UU, CH_e, CH_SPACE, CH_SPACE>>,
      <<CH_t, CH_r, CH_u>>, <<CH_t, CH_r, CH_u, 120>>, <<CH_SPACE, CH_t, CH_r, CH_u, CH_e>>,
      <<CH_f, CH_a, CH_l, CH_s, CH_e>>, <<CH_f, CH_a, CH_l, CH_s>>,
      <<CH_SPACE, CH_f, CH_a, CH_l, CH_s, CH_e, CH_TAB>>, <<CH_f, CH_a, CH_l, CH_s, 120>>,
      <<CH_i, CH_n>>, <<CH_i, CH_n, CH_f>>, <<CH_i, CH_n, CH_f, CH_i, CH_n, CH_i, CH_t>>,
      <<CH_i, CH_n, CH_f, CH_i, CH_n, CH_i, CH_t, CH_y>>,
      <<CH_SPACE, CH_MINUS, CH_i, CH_n, CH_f, CH_i, CH_n, CH_i, CH_t, CH_y, CH_SPACE>>,
      <<CH_i, CH_n, CH_f, CH_SPACE, 120>>, <<CH_n, CH_a>>, <<CH_n, CH_a, CH_n>>,
      <<CH_PLUS, CH_n, CH_a, CH_n, CH_SPACE>>,
      <<49, CH_e, 53>>, <<CH_SPACE, CH_MINUS, 49, CH_DOT, 53, CH_e, CH_MINUS, 51, CH_SPACE>>,
      <<49, CH_e, 53, 120>>, <<CH_MINUS, 49, CH_e, 53, CH_SPACE, CH_SPACE>>,
      <<49, CH_DOT, 53, CH_SPACE, 120>>, <<49, CH_DOT, 53, CH_DOT>>,
      <<CH_SPACE, CH_SPACE, 49, 50, CH_SPACE, CH_SPACE>>, <<CH_MINUS, 49, 50, 56>>,
      <<57, 57, 57, 57, 57>>, <<CH_PLUS, 51, 50, 55, 54, 55, CH_SPACE>>,
      <<49, 50, 51, 120>>, <<49, 50, 51, CH_SPACE, 120>>, <<CH_MINUS>>, <<CH_PLUS, CH_SPACE>>,
      <<CH_z, CH_z>>, <<49, CH_UF, CH_f, CH_SPACE>>, <<CH_f, CH_f, CH_DOT>>,
      <<CH_SPACE, CH_PLUS, CH_0, CH_0, CH_DOT, CH_0, 49, CH_0, CH_e, 50, CH_SPACE>>,
      <<CH_0, CH_DOT, CH_0, CH_e, CH_MINUS, 49, 50, 57>>, <<49, CH_e, CH_SPACE, 53>>,
      <<CH_DOT>>, <<CH_SPACE, CH_TAB, CH_NL>> }

InitCalls == s \in CallSeeds /\ Idle

TypeCallChar ==
    /\ pc = "input"
    /\ Len(s) < MaxCallLen
    /\ \E c \in CallAlphabet : s' = Append(s, c)
    /\ UNCHANGED <<fval, pc, fn, bits, base, type_precision, type_scale, round, raw, result, value, ub>>

NextCalls ==
    \/ TypeCallChar
    \/ CallStringToInt
    \/ CallStringToIntBase
    \/ CallStringToBool
    \/ CallStringToFloat
    \/ CallStringToDecimal

SpecCalls == InitCalls /\ [][NextCalls]_vars

----------------------------------------------------------------------------
(* Reference notions the claims are stated with, independent of the parser. *)
Whitespace == {32, 9, 10, 11, 12, 13}
Digits == 48..57
Signs == {43, 45}

RECURSIVE DropLeading(_, _)
DropLeading(str, set) ==
    IF str # <<>> /\ Head(str) \in set THEN DropLeading(Tail(str), set) ELSE str

RECURSIVE DropTrailing(_, _)
DropTrailing(str, set) ==
    IF str # <<>> /\ str[Len(str)] \in set
    THEN DropTrailing(SubSeq(str, 1, Len(str) - 1), set)
    ELSE str

Trimmed(str) == DropTrailing(DropLeading(str, Whitespace), Whitespace)

AllIn(str, set) == \A i \in 1..Len(str) : str[i] \in set

Unsigned(str) == IF str # <<>> /\ Head(str) \in Signs THEN Tail(str) ELSE str

IsNegative(str) == str # <<>> /\ Head(str) = 45

(* optional '+'/'-' followed by one or more decimal digits *)
IsSignedDigits(str) == Unsigned(str) # <<>> /\ AllIn(Unsigned(str), Digits)

(* The number a digit string denotes in a radix (digit codes already values). *)
RECURSIVE Horner(_, _)
Horner(vals, radix) ==
    IF vals = <<>> THEN 0
    ELSE Horner(SubSeq(vals, 1, Len(vals) - 1), radix) * radix + vals[Len(vals)]

DecimalDigits(str) == [i \in 1..Len(str) |-> str[i] - 48]

NumValue(str) ==
    LET m == Horner(DecimalDigits(Unsigned(str)), 10)
    IN  IF IsNegative(str) THEN 0 - m ELSE m

IntCallDone == pc = "done" /\ fn = "StringToInt"

(* C1: for an input that is an optional sign followed by one or more decimal  *)
(* digits, StringToInt<T> returns Success with the exact value when the value *)
(* lies in [min(T), max(T)], and otherwise Overflow with max(T) for an input  *)
(* without '-' and min(T) for an input with '-'.                              *)
C1_ExactOrClamped ==
    (IntCallDone /\ IsSignedDigits(s)) =>
        LET n == NumValue(s)
        IN  IF MinOf(bits) <= n /\ n <= MaxOf(bits)
            THEN result = PARSE_SUCCESS /\ value = n
            ELSE /\ result = PARSE_OVERFLOW
                 /\ value = IF IsNegative(s) THEN MinOf(bits) ELSE MaxOf(bits)

C1_Witness ==
    /\ IntCallDone /\ IsSignedDigits(s)
    /\ bits = 16
    /\ NumValue(s) = MinOf(16) - 1
    /\ result = PARSE_OVERFLOW /\ value = MinOf(16)

(* C2: StringToInt behaves as the internal parser applied to the input with   *)
(* its leading whitespace removed; whitespace after an optionally signed      *)
(* digit string is tolerated; the empty string and every all-whitespace       *)
(* string give Failure.                                                        *)
C2_LeadingTrailingWhitespace ==
    IntCallDone =>
        /\ Ret(result, value) = StringToIntInternal(bits, DropLeading(s, Whitespace))
        /\ IsSignedDigits(Trimmed(s)) =>
               Ret(result, value) = StringToIntInternal(bits, Trimmed(s))
        /\ AllIn(s, Whitespace) => result = PARSE_FAILURE

C2_Witness ==
    /\ IntCallDone
    /\ Len(s) >= 4 /\ s[1] \in Whitespace /\ s[Len(s)] \in Whitespace
    /\ IsSignedDigits(Trimmed(s))
    /\ result = PARSE_SUCCESS /\ value = NumValue(Trimmed(s)) /\ value # 0

Letters == (65..90) \cup (97..122)

ToLower(c) == IF c \in 65..90 THEN c + 32 ELSE c

(* str is the word, in any mix of cases, followed only by whitespace *)
IsWordThenWhitespace(str, word) ==
    /\ Len(str) >= Len(word)
    /\ \A i \in 1..Len(word) : ToLower(str[i]) = word[i]
    /\ AllIn(SubSeq(str, Len(word) + 1, Len(str)), Whitespace)

WordTrue == <<116, 114, 117, 101>>
WordFalse == <<102, 97, 108, 115, 101>>

BoolCallDone == pc = "done" /\ fn = "StringToBool"

(* C3: StringToBool returns Success(true) exactly when the input without its  *)
(* leading whitespace is t,r,u,e in any case followed only by whitespace,     *)
(* Success(false) exactly when it is f,a,l,s,e in any case followed only by   *)
(* whitespace, and Failure with value false for every other input.            *)
C3_BoolExactWord ==
    BoolCallDone =>
        LET body == DropLeading(s, Whitespace)
        IN  IF IsWordThenWhitespace(body, WordTrue)
            THEN result = PARSE_SUCCESS /\ value = TRUE
            ELSE IF IsWordThenWhitespace(body, WordFalse)
            THEN result = PARSE_SUCCESS /\ value = FALSE
            ELSE result = PARSE_FAILURE /\ value = FALSE

C3_Witness ==
    /\ BoolCallDone
    /\ s = <<32, 84, 114, 117, 101>>
    /\ result = PARSE_SUCCESS /\ value = TRUE

(* The value of a character as a digit of some radix; 36 for a non-digit. *)
RadixDigit(c) ==
    IF c \in Digits THEN c - 48
    ELSE IF c \in 97..122 THEN c - 87
    ELSE IF c \in 65..90 THEN c - 55
    ELSE 36

(* Horner's rule, saturating at cap so that long inputs stay computable. *)
RECURSIVE HornerUpTo(_, _, _)
HornerUpTo(vals, radix, cap) ==
    IF vals = <<>> THEN 0
    ELSE LET front == HornerUpTo(SubSeq(vals, 1, Len(vals) - 1), radix, cap)
             next == front * radix + vals[Len(vals)]
         IN  IF front >= cap \/ next >= cap THEN cap ELSE next

RadixDigits(str) == [i \in 1..Len(str) |-> RadixDigit(str[i])]

(* The magnitude of the digit string str in radix b, saturating at 2^w. *)
Magnitude(str, b, w) == HornerUpTo(RadixDigits(str), b, 2 ^ w)

BaseCallDone == pc = "done" /\ fn = "StringToIntBase"

(* C9: for a base b in 2..36 and an input that is an optional sign followed   *)
(* by one or more characters that are digits of base b ('0'..'9', letters     *)
(* case-insensitively as 10..35), StringToInt<T>(s, len, b) returns Success   *)
(* with the positional value when it fits in T and Overflow with the          *)
(* sign-matched min(T)/max(T) otherwise.                                       *)
C9_BaseExactOrClamped ==
    (/\ BaseCallDone
     /\ Unsigned(s) # <<>>
     /\ \A i \in 1..Len(Unsigned(s)) : RadixDigit(Unsigned(s)[i]) < base) =>
        LET m == Magnitude(Unsigned(s), base, bits)
            n == IF IsNegative(s) THEN 0 - m ELSE m
        IN  IF MinOf(bits) <= n /\ n <= MaxOf(bits)
            THEN result = PARSE_SUCCESS /\ value = n
            ELSE /\ result = PARSE_OVERFLOW
                 /\ value = IF IsNegative(s) THEN MinOf(bits) ELSE MaxOf(bits)

C9_Witness ==
    /\ BaseCallDone
    /\ s = <<102, 70>> /\ base = 16 /\ bits = 16
    /\ result = PARSE_SUCCESS /\ value = 255

(* The longest prefix of str made of digits of base b. *)
RECURSIVE ValidPrefixLen(_, _)
ValidPrefixLen(str, b) ==
    IF str # <<>> /\ RadixDigit(Head(str)) < b
    THEN 1 + ValidPrefixLen(Tail(str), b)
    ELSE 0

(* The scan of the base parser stops at a letter or digit that is not below   *)
(* the base, after a prefix of valid digits whose value fits in T.            *)
StopsAtInvalidDigit ==
    /\ BaseCallDone
    /\ LET u == Unsigned(DropLeading(s, Whitespace))
           k == ValidPrefixLen(u, base)
           m == Magnitude(SubSeq(u, 1, k), base, bits)
       IN  /\ k < Len(u)
           /\ u[k + 1] \in Digits \cup Letters
           /\ m <= (IF IsNegative(DropLeading(s, Whitespace))
                    THEN MaxOf(bits) + 1 ELSE MaxOf(bits))

StoppedValue ==
    LET body == DropLeading(s, Whitespace)
        u == Unsigned(body)
        m == Magnitude(SubSeq(u, 1, ValidPrefixLen(u, base)), base, bits)
    IN  IF IsNegative(body) THEN 0 - m ELSE m

AfterStop ==
    LET u == Unsigned(DropLeading(s, Whitespace))
    IN  SubSeq(u, ValidPrefixLen(u, base) + 2, Len(u))

----------------------------------------------------------------------------
(* A decimal literal read by its grammar, independently of the parser:        *)
(*   [sign] int-digits ['.' frac-digits] [('e'|'E') [sign] exp-digits]        *)
(* around which whitespace is allowed.                                         *)
ExpMarks == {101, 69}

(* The first index of str holding a character of set, or Len(str) + 1. *)
FirstIn(str, set) ==
    IF \E i \in 1..Len(str) : str[i] \in set
    THEN CHOOSE i \in 1..Len(str) : str[i] \in set /\ \A j \in 1..(i - 1) : str[j] \notin set
    ELSE Len(str) + 1

LitBody(str) == Unsigned(Trimmed(str))
LitNegative(str) == IsNegative(Trimmed(str))
LitMantissa(str) == SubSeq(LitBody(str), 1, FirstIn(LitBody(str), ExpMarks) - 1)
LitHasExp(str) == FirstIn(LitBody(str), ExpMarks) <= Len(LitBody(str))
LitExpText(str) == SubSeq(LitBody(str), FirstIn(LitBody(str), ExpMarks) + 1, Len(LitBody(str)))
LitInt(str) == SubSeq(LitMantissa(str), 1, FirstIn(LitMantissa(str), {46}) - 1)
LitFrac(str) ==
    SubSeq(LitMantissa(str), FirstIn(LitMantissa(str), {46}) + 1, Len(LitMantissa(str)))

(* All mantissa digits, and the significant ones (no leading zeros). *)
LitDigits(str) == LitInt(str) \o LitFrac(str)
LitSignificant(str) == DropLeading(LitDigits(str), {48})

WellFormed(str) ==
    /\ AllIn(LitInt(str), Digits)
    /\ AllIn(LitFrac(str), Digits)
    /\ LitDigits(str) # <<>>
    /\ LitHasExp(str) => IsSignedDigits(LitExpText(str))

(* The exponent, saturating at +-100000 (far outside any 8-bit exponent). *)
LitExp(str) ==
    IF ~LitHasExp(str) THEN 0
    ELSE LET m == HornerUpTo(DecimalDigits(Unsigned(LitExpText(str))), 10, 100000)
         IN  IF IsNegative(LitExpText(str)) THEN 0 - m ELSE m

ExpInInt8(str) == 0 - 128 <= LitExp(str) /\ LitExp(str) <= 127

(* Digits right of the decimal point once the exponent is applied. *)
LitScale(str) == Len(LitFrac(str)) - LitExp(str)

(* Significant digits left of the decimal point once the exponent is applied. *)
LitIntDigits(str) ==
    IF LitSignificant(str) = <<>> THEN 0
    ELSE LET n == Len(LitSignificant(str)) - (Len(LitDigits(str)) - Len(LitInt(str)))
                     + LitExp(str)
         IN  IF n > 0 THEN n ELSE 0

Cap == 10 ^ 9

(* |literal| * 10^ts cut after the units digit, plus one when rnd is set and  *)
(* the first digit cut is 5 or more; defined when LitScale(str) > ts.         *)
RoundedMagnitude(str, ts, rnd) ==
    LET d == LitDigits(str)
        keep == Len(d) - (LitScale(str) - ts)
        kept == IF keep > 0 THEN SubSeq(d, 1, keep) ELSE <<>>
        cut == IF keep >= 0 /\ keep < Len(d) THEN d[keep + 1] - 48 ELSE 0
    IN  HornerUpTo(DecimalDigits(kept), 10, Cap) + (IF rnd /\ cut >= 5 THEN 1 ELSE 0)

DecCallDone == pc = "done" /\ fn = "StringToDecimal"

Signed(str, m) == IF LitNegative(str) THEN 0 - m ELSE m

(* C4: when StringToDecimal returns Underflow for a well-formed literal whose *)
(* significant integer digits fit in type_precision - type_scale and that has *)
(* more than type_scale fractional digits, the returned raw magnitude is the  *)
(* literal's exact magnitude times 10^type_scale, rounded half up when round  *)
(* is set and truncated otherwise, with the literal's sign applied.           *)
C4_UnderflowRoundsOrTruncates ==
    (/\ DecCallDone /\ WellFormed(s)
     /\ LitIntDigits(s) <= type_precision - type_scale
     /\ LitScale(s) > type_scale
     /\ result = PARSE_UNDERFLOW) =>
        value = Signed(s, RoundedMagnitude(s, type_scale, round))

(* C5: StringToDecimal returns Overflow for every well-formed literal whose   *)
(* number of significant integer digits exceeds type_precision - type_scale,  *)
(* for both values of round and however many fractional digits it has.        *)
C5_TooManyIntegerDigitsOverflow ==
    (/\ DecCallDone /\ WellFormed(s)
     /\ LitIntDigits(s) > type_precision - type_scale) =>
        result = PARSE_OVERFLOW

(* The two statements restricted to literals whose exponent fits int8_t. *)
C4_WithInt8Exponent == ExpInInt8(s) => C4_UnderflowRoundsOrTruncates
C5_WithInt8Exponent == ExpInInt8(s) => C5_TooManyIntegerDigitsOverflow

(* C6: for 0 <= type_scale <= type_precision and |v| < 10^type_precision, the *)
(* canonical rendering of v parses, for either value of round, to Success     *)
(* with raw value exactly v.                                                   *)
C6_RoundTrip ==
    pc = "reparsed" => (result = PARSE_SUCCESS /\ value = raw /\ ~ub)

C6_Witness ==
    /\ pc = "reparsed"
    /\ type_precision = 2 /\ type_scale = 2 /\ raw = 0 - 5
    /\ s = <<45, 48, 46, 48, 53>>
    /\ result = PARSE_SUCCESS /\ value = 0 - 5

(* The mantissa the parser accumulates: the first min(total digits,          *)
(* type_precision) significant digits.                                        *)
Accumulated(str, tp) ==
    LET sig == LitSignificant(str)
    IN  HornerUpTo(DecimalDigits(SubSeq(sig, 1, IF Len(sig) < tp THEN Len(sig) ELSE tp)),
                   10, Cap)

(* By how many digits the exponent exceeds the fractional digit count. *)
ExcessExponent(str) ==
    IF LitExp(str) > Len(LitFrac(str)) THEN LitExp(str) - Len(LitFrac(str)) ELSE 0

(* m * 10^k is a value of the 32-bit storage type. *)
Representable(m, k) == m = 0 \/ (k <= 9 /\ m <= 2147483647 \div (10 ^ k))

ScaledUp(m, k) == IF m = 0 THEN 0 ELSE m * (10 ^ k)

(* The literal passes the integer-digit check and has too many fractional     *)
(* digits: the parser rounds or truncates it.                                  *)
RoundCase(str, tp, ts) == LitScale(str) > ts /\ LitIntDigits(str) <= tp - ts

C8_EmptyDotTrailingDot ==
    DecCallDone =>
        /\ LitBody(s) = <<>> => result = PARSE_FAILURE
        /\ LitBody(s) = <<46>> => (result = PARSE_SUCCESS /\ value = 0)
        /\ (Len(s) >= 2 /\ s[Len(s)] = 46 /\ AllIn(SubSeq(s, 1, Len(s) - 1), Digits)) =>
              LET alone == StringToDecimal(SubSeq(s, 1, Len(s) - 1),
                                           type_precision, type_scale, round)
              IN  result = alone.result /\ value = alone.value /\ ~ub /\ ~alone.undefined

C8_Witness ==
    /\ DecCallDone
    /\ s = <<9, 45, 46, 10>>
    /\ type_scale > 0
    /\ result = PARSE_SUCCESS /\ value = 0

(* C11 as stated: StringToInt with a base argument outside 2..36 returns      *)
(* Failure for every input, with value 0 (nothing is accumulated).  The code  *)
(* does not test base: base 1 and base 37 parse digits and return Success,    *)
(* a negative base returns Success(0) at the first alphanumeric character,    *)
(* and base 0 divides by zero.                                                 *)
C11_OutOfRangeBaseFails ==
    (pc = "done" /\ fn = "StringToIntBase" /\ base \notin 2..36) =>
        (result = PARSE_FAILURE /\ value = 0 /\ ~ub)

FloatCallDone == pc = "done" /\ fn = "StringToFloat"

(* The input without leading whitespace and without one optional sign. *)
FloatBody(str) == Unsigned(DropLeading(str, Whitespace))

FloatNegative(str) == IsNegative(DropLeading(str, Whitespace))

(* str starts with the word, in any mix of cases. *)
StartsWithWord(str, word) ==
    Len(str) >= Len(word) /\ \A k \in 1..Len(word) : ToLower(str[k]) = word[k]

WordInf == <<105, 110, 102>>
WordInfinity == <<105, 110, 102, 105, 110, 105, 116, 121>>
WordNan == <<110, 97, 110>>

(* C12: after leading whitespace and an optional sign, "inf" or "infinity"    *)
(* in any case followed only by whitespace gives Success with the infinity of *)
(* the sign given, "nan" in any case followed only by whitespace gives        *)
(* Success with NaN, and every other input that starts with one of these      *)
(* words gives Failure.                                                        *)
C12_SpecialValues ==
    FloatCallDone =>
        LET body == FloatBody(s)
        IN  IF IsWordThenWhitespace(body, WordInf) \/ IsWordThenWhitespace(body, WordInfinity)
            THEN /\ result = PARSE_SUCCESS
                 /\ fval.kind = "inf"
                 /\ fval.negative = FloatNegative(s)
            ELSE IF IsWordThenWhitespace(body, WordNan)
            THEN result = PARSE_SUCCESS /\ fval.kind = "nan"
            ELSE (StartsWithWord(body, WordInf) \/ StartsWithWord(body, WordNan)) =>
                     result = PARSE_FAILURE

C12_Witness ==
    /\ FloatCallDone
    /\ s = <<32, 43, 105, 110, 102, 105, 110, 105, 116, 121, 32, 10>>
    /\ result = PARSE_SUCCESS /\ fval.kind = "inf" /\ ~fval.negative

(* The input of StringToInt without leading whitespace and one optional sign, *)
(* its leading run of decimal digits, and what follows the run.                *)
IntBody(str) == Unsigned(DropLeading(str, Whitespace))
IntNegative(str) == IsNegative(DropLeading(str, Whitespace))
IntDigitRun(str) == SubSeq(IntBody(str), 1, FirstIn(IntBody(str), (0..255) \ Digits) - 1)
IntAfterRun(str) == SubSeq(IntBody(str), Len(IntDigitRun(str)) + 1, Len(IntBody(str)))

(* The digit run denotes a magnitude outside T of w bits, given the sign. *)
RunOverflows(str, w) ==
    HornerUpTo(DecimalDigits(IntDigitRun(str)), 10, 2 ^ w)
        > (IF IntNegative(str) THEN MaxOf(w) + 1 ELSE MaxOf(w))

RunValue(str) ==
    LET m == Horner(DecimalDigits(IntDigitRun(str)), 10)
    IN  IF IntNegative(str) THEN 0 - m ELSE m

(* C13 as stated: in StringToInt without a base, when a character that is not *)
(* a decimal digit follows the optional sign and the digits, the result is    *)
(* Success with the accumulated value if at least one digit precedes it and   *)
(* everything from it to the end is whitespace, and Failure with value 0      *)
(* otherwise.                                                                  *)
C13_NonDigitEndsScan ==
    (IntCallDone /\ IntAfterRun(s) # <<>>) =>
        IF IntDigitRun(s) # <<>> /\ AllIn(IntAfterRun(s), Whitespace)
        THEN result = PARSE_SUCCESS /\ value = RunValue(s)
        ELSE result = PARSE_FAILURE /\ value = 0

(* C13 amended: the same, unless the digits before the character already      *)
(* denote a magnitude outside T: then the checked loop has returned Overflow  *)
(* with the clamped value before it reaches the character, whatever follows.  *)
C13_NonDigitEndsScanUnlessOverflow ==
    (IntCallDone /\ IntAfterRun(s) # <<>>) =>
        IF RunOverflows(s, bits)
        THEN /\ result = PARSE_OVERFLOW
             /\ value = (IF IntNegative(s) THEN MinOf(bits) ELSE MaxOf(bits))
        ELSE IF IntDigitRun(s) # <<>> /\ AllIn(IntAfterRun(s), Whitespace)
        THEN result = PARSE_SUCCESS /\ value = RunValue(s)
        ELSE result = PARSE_FAILURE /\ value = 0

C13_Witness ==
    /\ IntCallDone /\ bits = 8
    /\ s = <<57, 57, 57, 120>>
    /\ result = PARSE_OVERFLOW /\ value = 127

(* StringToIntInternal<T> with the fast path taken out: every input goes      *)
(* through the per-digit overflow-checked loop.                                *)
CheckedInternal(w, str) ==
    IF Len(str) <= 0 THEN Ret(PARSE_FAILURE, 0)
    ELSE LET negative == str[1] = CH_MINUS
             i == IF str[1] = CH_MINUS \/ str[1] = CH_PLUS THEN 1 ELSE 0
         IN  CheckedLoop(w, str, i, i, 0, IF negative THEN MaxOf(w) + 1 ELSE MaxOf(w),
                         negative)

CheckedStringToInt(w, str) ==
    LET first == CheckedInternal(w, str)
    IN  IF first.result = PARSE_SUCCESS THEN first
        ELSE CheckedInternal(w, DropLeading(str, Whitespace))

(* The input is short enough for the fast path (in both internal calls). *)
OnFastPath(str, w) == Len(Unsigned(str)) < max_ascii_len(w)

(* C14: for an input whose length after the optional sign is below            *)
(* max_ascii_len, the digits StringToIntNoOverflow accumulates never exceed   *)
(* max(T), and the status and value returned are those of the overflow-       *)
(* checked loop on the same input; max_ascii_len - 1 nines fit T for the      *)
(* widths of 8, 16 and 32 bits.                                                *)
C14_FastPathEquivalent ==
    /\ \A w \in {8, 16, 32} : 10 ^ (max_ascii_len(w) - 1) - 1 <= MaxOf(w)
    /\ (IntCallDone /\ OnFastPath(s, bits)) =>
          /\ HornerUpTo(DecimalDigits(IntDigitRun(s)), 10, 2 ^ bits) <= MaxOf(bits)
          /\ result = CheckedStringToInt(bits, s).result
          /\ value = CheckedStringToInt(bits, s).value

C14_Witness ==
    /\ IntCallDone /\ bits = 16
    /\ s = <<57, 57, 57, 57>>
    /\ OnFastPath(s, bits)
    /\ result = PARSE_SUCCESS /\ value = 9999

(* The scan of the literal reaches an exponent marker: only digits and at     *)
(* most one '.' precede the first 'e' or 'E'.                                  *)
ScanReachesMarker(str) ==
    LitHasExp(str) /\ AllIn(LitInt(str), Digits) /\ AllIn(LitFrac(str), Digits)

(* The digits that follow the optional sign of the exponent text, what comes  *)
(* after them, and whether they denote a value outside int8_t.                 *)
ExpRun(str) ==
    LET u == Unsigned(LitExpText(str))
    IN  SubSeq(u, 1, FirstIn(u, (0..255) \ Digits) - 1)

ExpRest(str) ==
    SubSeq(Unsigned(LitExpText(str)), Len(ExpRun(str)) + 1, Len(Unsigned(LitExpText(str))))

ExpRunOverflows(str) ==
    HornerUpTo(DecimalDigits(ExpRun(str)), 10, 1000)
        > (IF IsNegative(LitExpText(str)) THEN 128 ELSE 127)

(* The classification of a literal with a non-zero mantissa and an exponent   *)
(* that was applied.                                                           *)
ClassifiedNormally ==
    IF LitIntDigits(s) > type_precision - type_scale THEN result = PARSE_OVERFLOW
    ELSE IF LitScale(s) > type_scale
    THEN /\ result \in {PARSE_UNDERFLOW, PARSE_OVERFLOW}
         /\ value = Signed(s, RoundedMagnitude(s, type_scale, round))
         /\ result = PARSE_OVERFLOW <=> value \in {10 ^ type_precision, 0 - 10 ^ type_precision}
    ELSE result = PARSE_SUCCESS

DroppedDigits(str, tp) ==
    IF Len(LitSignificant(str)) > tp THEN Len(LitSignificant(str)) - tp ELSE 0

(* The accumulator holds exactly tp digits, ts of them fractional: the        *)
(* literal passes the integer-digit check, has too many fractional digits,    *)
(* and dropping the digits beyond tp leaves exactly ts fractional ones.        *)
ShiftZero(str, tp, ts) ==
    /\ WellFormed(str) /\ ExpInInt8(str)
    /\ RoundCase(str, tp, ts)
    /\ LitScale(str) - DroppedDigits(str, tp) = ts

FirstDropped(str, tp) == LitSignificant(str)[tp + 1] - 48

(* C16: in the Underflow case with shift = 0 the accumulated value is         *)
(* incremented by one exactly when round is set and the first dropped digit   *)
(* is 5 or more; the result is Overflow exactly when the incremented value is *)
(* 10^type_precision, and otherwise Underflow; without the increment the kept *)
(* digits are returned unchanged with Underflow.                               *)
C16_RoundingCascade ==
    (DecCallDone /\ ShiftZero(s, type_precision, type_scale)) =>
        LET kept == Accumulated(s, type_precision)
            inc == IF round /\ FirstDropped(s, type_precision) >= 5 THEN 1 ELSE 0
        IN  /\ DroppedDigits(s, type_precision) > 0
            /\ ~ub
            /\ value = Signed(s, kept + inc)
            /\ result = (IF kept + inc = 10 ^ type_precision
                         THEN PARSE_OVERFLOW ELSE PARSE_UNDERFLOW)
            /\ inc = 0 => result = PARSE_UNDERFLOW

C16_Witness ==
    /\ DecCallDone
    /\ s = <<57, 46, 57, 57>>
    /\ type_precision = 2 /\ type_scale = 1 /\ round
    /\ ShiftZero(s, type_precision, type_scale)
    /\ result = PARSE_OVERFLOW /\ value = 100

(* The input is a sign followed by a body that starts with neither a sign nor *)
(* a whitespace character (the body may be empty).                             *)
SignThenBody(str) ==
    /\ str # <<>> /\ str[1] \in Signs
    /\ Len(str) > 1 => str[2] \notin Signs \cup Whitespace

(* C17: for a body that starts with neither a sign nor whitespace, parsing    *)
(* '-' followed by the body gives the status of parsing the body alone and    *)
(* the negated raw value, and parsing '+' followed by the body gives the      *)
(* status and the value of the body alone, for every type and either round.   *)
C17_SignSymmetry ==
    (DecCallDone /\ SignThenBody(s)) =>
        LET alone == StringToDecimal(Tail(s), type_precision, type_scale, round)
        IN  /\ result = alone.result
            /\ ub = alone.undefined
            /\ ~ub => value = (IF s[1] = 45 THEN 0 - alone.value ELSE alone.value)

C17_Witness ==
    /\ DecCallDone
    /\ s = <<45, 57, 57, 46, 57, 53>>
    /\ type_precision = 2 /\ type_scale = 0 /\ round
    /\ result = PARSE_OVERFLOW /\ value = 0 - 100

(* |literal| * 10^ts for a literal with at most ts fractional digits once the *)
(* exponent is applied.                                                        *)
ExactScaled(str, ts) ==
    LET m == HornerUpTo(DecimalDigits(LitDigits(str)), 10, Cap)
    IN  IF m = 0 THEN 0 ELSE m * (10 ^ (ts - LitScale(str)))

(* C18: for 0 <= type_scale <= type_precision, a call that ends in the        *)
(* branch that scales the value up (Success for an input with fewer than      *)
(* type_scale fractional digits) has dropped no mantissa digit and returns a  *)
(* value below 10^type_precision; and every Success has a raw magnitude below *)
(* 10^type_precision that is the literal's exact value times 10^type_scale,   *)
(* computed without overflowing the storage type.                              *)
C18_ScaleUpCannotOverflow ==
    (DecCallDone /\ result = PARSE_SUCCESS) =>
        /\ ~ub
        /\ Len(LitSignificant(s)) <= type_precision
        /\ LitScale(s) <= type_scale
        /\ value = Signed(s, ExactScaled(s, type_scale))
        /\ value < 10 ^ type_precision /\ 0 - value < 10 ^ type_precision

C18_Witness ==
    /\ DecCallDone
    /\ s = <<48, 46, 53>>
    /\ type_precision = 2 /\ type_scale = 2
    /\ LitScale(s) < type_scale
    /\ result = PARSE_SUCCESS /\ value = 50

(* The mantissa, the text before the first 'e' or 'E', is digits with at most *)
(* one '.'.                                                                    *)
MantissaScans(str) == AllIn(LitInt(str), Digits) /\ AllIn(LitFrac(str), Digits)

(* The number breaks the shape digits, at most one '.', at most one marker    *)
(* followed by an optional sign and digits: a second '.', a '.' after the     *)
(* marker, a second marker, a sign or whitespace inside, or any other          *)
(* character.                                                                  *)
Malformed(str) ==
    \/ ~MantissaScans(str)
    \/ LitHasExp(str) /\ ~AllIn(Unsigned(LitExpText(str)), Digits)

(* One loop iteration never clears a flag and never moves the index back. *)
FlagsOnlySet ==
    \A c \in DecAlphabet \cup {CH_PLUS, CH_UE, 120}, fd \in {0, 1}, fv \in BOOLEAN :
        LET st == [i |-> 0, stop |-> "run", found_value |-> fv, found_dot |-> fd,
                   total_digits_count |-> 0, digits_after_dot_count |-> 0,
                   first_truncated_digit |-> 0, value |-> 0]
            next == DecimalStep(st, <<c>>, 1, TRUE)
        IN  /\ next.found_dot >= fd
            /\ fv => next.found_value
            /\ next.i >= st.i

(* C19 as stated: a second '.', a '.' after the exponent marker, a second     *)
(* marker, a sign or whitespace inside the number, or any other character     *)
(* gives Failure with raw value 0.                                             *)
C19_MalformedFails ==
    (DecCallDone /\ Malformed(s)) => (result = PARSE_FAILURE /\ value = 0)

(* C19 amended: the same, unless the offending character comes after exponent *)
(* digits that already leave the int8_t range: then the call has ended with   *)
(* Overflow (Underflow after a '-') and value 0 before reaching it.  The scan *)
(* never clears a flag.                                                        *)
C19_MalformedFailsUnlessExponentOverflow ==
    /\ FlagsOnlySet
    /\ (DecCallDone /\ Malformed(s)) =>
          /\ value = 0 /\ ~ub
          /\ IF MantissaScans(s) /\ ExpRunOverflows(s)
             THEN result = (IF IsNegative(LitExpText(s)) THEN PARSE_UNDERFLOW
                            ELSE PARSE_OVERFLOW)
             ELSE result = PARSE_FAILURE

C19_Witness ==
    /\ DecCallDone
    /\ s = <<49, 101, 57, 57, 57, 101, 53>>
    /\ Malformed(s)
    /\ result = PARSE_OVERFLOW /\ value = 0

(* The input is one of the special values of C12. *)
IsSpecialValue(str) ==
    \/ IsWordThenWhitespace(FloatBody(str), WordInf)
    \/ IsWordThenWhitespace(FloatBody(str), WordInfinity)
    \/ IsWordThenWhitespace(FloatBody(str), WordNan)

(* The first index of str that holds neither a digit nor the first '.', or    *)
(* Len(str) + 1.                                                               *)
Expected(str, i) == str[i] \in Digits \/ (str[i] = 46 /\ \A j \in 1..(i - 1) : str[j] # 46)

FirstUnexpected(str) ==
    IF \E i \in 1..Len(str) : ~Expected(str, i)
    THEN CHOOSE i \in 1..Len(str) : ~Expected(str, i) /\ \A j \in 1..(i - 1) : Expected(str, j)
    ELSE Len(str) + 1

(* An exponent form a decimal-to-binary conversion reads up to a whitespace-  *)
(* only tail: at least one mantissa digit before the marker at index p, then  *)
(* an optional sign, at least one digit, and whitespace only.                  *)
ExponentFormOk(str, p) ==
    LET u == Unsigned(SubSeq(str, p + 1, Len(str)))
        n == FirstIn(u, (0..255) \ Digits) - 1
    IN  /\ \E i \in 1..(p - 1) : str[i] \in Digits
        /\ n >= 1
        /\ AllIn(SubSeq(u, n + 1, Len(u)), Whitespace)

(* C20: StringToFloat gives Failure, after leading whitespace and an optional *)
(* sign, for an input (other than the special values) whose first character   *)
(* is not a digit, '.', 'e' or 'E'; for an input in which a character other   *)
(* than a digit, the first '.' or an exponent marker is followed by anything  *)
(* but whitespace to the end; and for an exponent form that the conversion    *)
(* routine does not read up to a whitespace-only tail.  An exponent form it   *)
(* does read, and digits with at most one '.' followed only by whitespace,    *)
(* do not give Failure.                                                        *)
C20_MalformedFloatFails ==
    (FloatCallDone /\ ~IsSpecialValue(s)) =>
        LET body == FloatBody(s)
            p == FirstUnexpected(body)
        IN  /\ (body # <<>> /\ body[1] \notin Digits \cup {46, 101, 69}) =>
                   result = PARSE_FAILURE
            /\ (p <= Len(body) /\ body[p] \notin ExpMarks
                  /\ ~AllIn(SubSeq(body, p, Len(body)), Whitespace)) =>
                   result = PARSE_FAILURE
            /\ (p <= Len(body) /\ body[p] \in ExpMarks) =>
                   (result = PARSE_FAILURE <=> ~ExponentFormOk(body, p))
            /\ (p > 1 /\ AllIn(SubSeq(body, p, Len(body)), Whitespace)) =>
                   result # PARSE_FAILURE

C20_Witness ==
    /\ FloatCallDone
    /\ s = <<49, 101, 53, 120>>
    /\ result = PARSE_FAILURE
    /\ fval.kind = "finite" /\ fval.mant = 1 /\ fval.exp10 = 5

----------------------------------------------------------------------------
(* C21: an integer parse gives Success only if a digit was consumed: when     *)
(* StringToInt, without or with a base, returns Success, the input without    *)
(* its leading whitespace and one optional sign starts with a character that  *)
(* is a digit of the radix.                                                    *)
C21_SuccessNeedsDigit ==
    /\ (IntCallDone /\ result = PARSE_SUCCESS) => IntDigitRun(s) # <<>>
    /\ (BaseCallDone /\ result = PARSE_SUCCESS) =>
           ValidPrefixLen(Unsigned(DropLeading(s, Whitespace)), base) >= 1

----------------------------------------------------------------------------
(* The mantissa of the literal is digits with at most one '.', none of the    *)
(* digits other than 0 (there may be no digit at all).                         *)
ZeroMantissa(str) == MantissaScans(str) /\ LitSignificant(str) = <<>>

(* C22: StringToDecimal gives Overflow only for a mantissa with a non-zero    *)
(* digit.  For type_precision >= 1 and 0 <= type_scale <= type_precision a    *)
(* literal whose mantissa has no non-zero digit is never Overflow; with a     *)
(* well-formed exponent part, or none, it is Success or Underflow with raw    *)
(* value 0 when the mantissa has a digit or a '.', and Failure when it has    *)
(* neither.                                                                    *)
C22_ZeroMantissaNeverOverflow ==
    (DecCallDone /\ type_precision >= 1 /\ ZeroMantissa(s)) =>
        /\ result # PARSE_OVERFLOW
        /\ (LitHasExp(s) => IsSignedDigits(LitExpText(s))) =>
               IF LitMantissa(s) # <<>>
               THEN result \in {PARSE_SUCCESS, PARSE_UNDERFLOW} /\ value = 0
               ELSE result = PARSE_FAILURE

----------------------------------------------------------------------------
(* The assertions of the Underflow branch, on the locals l of a call with the *)
(* type (tp, ts) and the flag rnd.                                             *)
UnderflowAssertions(l, tp, rnd) ==
    /\ l.shift >= 0
    /\ l.before >= 0 /\ l.before < 10 ^ tp
    /\ l.after >= 0 /\ l.after <= 10 ^ tp
    /\ l.branch = "scale_down" => l.after < 10 ^ tp
    /\ l.branch = "round" =>
           /\ l.shift = 0
           /\ l.truncated_digit_count > 0
           /\ l.first_truncated_digit \in 0..9
           /\ l.first_truncated_digit # 0 => rnd

(* C23: the debug assertions of StringToDecimal hold on every call with       *)
(* 0 <= type_scale <= type_precision: the value accumulated by the scan loop  *)
(* is in [0, 10^type_precision); ApplyExponent yields precision >= scale >=   *)
(* 0; and in the Underflow branch shift is never negative, shift = 0 comes    *)
(* with a dropped digit and a first_truncated_digit in 0..9 that is non-zero  *)
(* only under round, and value is below 10^type_precision before the rounding *)
(* and at most 10^type_precision after it.  The magnitude the call returns    *)
(* from that branch is the value the assertions speak about.                  *)
C23_DebugAssertionsHold ==
    DecCallDone =>
        LET sc == DecimalScan(s, type_precision, round)
            l == DecimalLocals(type_precision, type_scale, round, sc.st, sc.exponent)
        IN  /\ sc.st.value >= 0 /\ sc.st.value < 10 ^ type_precision
            /\ sc.st.first_truncated_digit \in 0..9
            /\ sc.classified =>
                   /\ l.precision >= l.scale /\ l.scale >= 0
                   /\ l.branch \in {"scale_down", "round"} =>
                          /\ UnderflowAssertions(l, type_precision, round)
                          /\ result \in {PARSE_UNDERFLOW, PARSE_OVERFLOW}
                          /\ value = Signed(s, l.after)

C23_Witness ==
    /\ DecCallDone
    /\ s = <<53, 46, 53, 57>>
    /\ type_precision = 2 /\ type_scale = 1 /\ round
    /\ LET sc == DecimalScan(s, type_precision, round)
           l == DecimalLocals(type_precision, type_scale, round, sc.st, sc.exponent)
       IN  /\ l.branch = "round" /\ l.shift = 0 /\ l.truncated_digit_count = 1
           /\ l.first_truncated_digit = 9 /\ l.before = 55 /\ l.after = 56
    /\ result = PARSE_UNDERFLOW /\ value = 56

----------------------------------------------------------------------------
(* The events of the call that led to the current state. *)
CallReturned == pc = "done"

CallLog == LogOfCall(fn, s, bits, base)

ReadsOf(log) == {log[k].at : k \in {j \in 1..Len(log) : log[j].kind = "read"}}

(* C24: no parser reads outside its input span: every byte that StringToInt   *)
(* (both forms), StringToBool, StringToFloat (IsInfinity, IsNaN and the copy  *)
(* for the exponent fallback included) and StringToDecimal (the exponent      *)
(* sub-parse included) read has an index i with 0 <= i < len, every span      *)
(* handed to a callee lies inside the input, and with len = 0 no byte is read. *)
C24_ReadsInsideSpan ==
    CallReturned =>
        LET log == CallLog
        IN  /\ \A k \in 1..Len(log) :
                  /\ log[k].kind = "read" => (0 <= log[k].at /\ log[k].at < Len(s))
                  /\ log[k].kind = "call" =>
                         /\ 0 <= log[k].at /\ 0 <= log[k].len
                         /\ log[k].at + log[k].len <= Len(s)
            /\ Len(s) = 0 => ReadsOf(log) = {}

C24_Witness ==
    /\ CallReturned /\ fn = "StringToFloat"
    /\ s = <<32, 45, 49, 46, 53, 101, 45, 51, 32>>
    /\ ReadsOf(CallLog) = 0..(Len(s) - 1)
    /\ \E k \in 1..Len(CallLog) :
          CallLog[k] = Ev("call", "memcpy", 2, 7)
    /\ result = PARSE_SUCCESS

----------------------------------------------------------------------------
(* The internal parser an entry point hands its input to. *)
InternalParser(f) ==
    CASE f = "StringToInt" -> "StringToIntInternal"
      [] f = "StringToIntBase" -> "StringToIntInternalBase"
      [] f = "StringToBool" -> "StringToBoolInternal"
      [] f = "StringToFloat" -> "StringToFloatInternal"
      [] OTHER -> "StringToDecimal"

(* What the first call of the internal parser, on the whole input, returns. *)
FirstResult ==
    CASE fn = "StringToInt" -> StringToIntInternal(bits, s).result
      [] fn = "StringToIntBase" -> StringToIntInternalBase(bits, s, base).result
      [] fn = "StringToBool" -> StringToBoolInternal(s).result
      [] fn = "StringToFloat" -> StringToFloatInternal(s).result
      [] OTHER -> result

CallsTo(log, name) == {k \in 1..Len(log) : log[k].kind = "call" /\ log[k].name = name}

LoopEntries(log, name) == {k \in 1..Len(log) : log[k].kind = "loop" /\ log[k].name = name}

(* The events of the loop of the k-th event that precede it. *)
EarlierInLoop(log, k) == {j \in 1..(k - 1) : log[j].name = log[k].name /\ log[j].kind \in {"loop", "iter", "shrink"}}

SetMax(S) == CHOOSE x \in S : \A y \in S : y <= x

(* The k-th event is an iteration that follows the entry of its loop, or an   *)
(* earlier iteration of it with a smaller index (a larger remaining length).  *)
Advances(log, k) ==
    /\ EarlierInLoop(log, k) # {}
    /\ LET j == SetMax(EarlierInLoop(log, k))
       IN  IF log[j].kind = "loop" THEN log[k].at = log[j].at
           ELSE IF log[k].kind = "iter"
           THEN log[j].kind = "iter" /\ log[k].at > log[j].at
           ELSE log[j].kind = "shrink" /\ log[k].at < log[j].at

(* A linear bound on the events of a call on an input of len bytes: a pass    *)
(* of an internal parser makes at most four events per byte (an iteration    *)
(* and a read in the scan, and the same in the whitespace test or the copy)  *)
(* besides its calls, the skip of leading whitespace two per byte, and there *)
(* are at most two passes.                                                     *)
StepBound(len) == 10 * len + 32

(* C25: every parse call terminates in a number of steps bounded by the input *)
(* length: each loop iteration has a strictly larger index (or a strictly     *)
(* smaller remaining length) than the one before, inside the input; the       *)
(* entry points StringToInt, StringToFloat and StringToBool call their        *)
(* internal parser at most twice, the second time only when the first call    *)
(* did not return Success; StringToDecimal makes one pass with at most one    *)
(* exponent sub-parse.                                                         *)
C25_CallsTerminate ==
    CallReturned =>
        LET log == CallLog
        IN  /\ \A k \in 1..Len(log) :
                  /\ log[k].kind = "iter" =>
                         /\ Advances(log, k)
                         /\ 0 <= log[k].at /\ log[k].at < Len(s)
                  /\ log[k].kind = "shrink" =>
                         /\ Advances(log, k)
                         /\ 1 <= log[k].at /\ log[k].at <= Len(s)
            /\ Len(log) <= StepBound(Len(s))
            /\ fn # "StringToDecimal" =>
                  Cardinality(CallsTo(log, InternalParser(fn))) =
                      (IF FirstResult = PARSE_SUCCESS THEN 1 ELSE 2)
            /\ fn = "StringToDecimal" =>
                  /\ Cardinality(CallsTo(log, "StringToDecimal")) = 1
                  /\ Cardinality(LoopEntries(log, "StringToDecimal")) = 1
                  /\ Cardinality(CallsTo(log, "StringToIntInternal")) <= 1

C25_Witness ==
    /\ CallReturned /\ fn = "StringToInt" /\ bits = 8
    /\ s = <<32, 32, 49, 50, 32, 32>>
    /\ FirstResult = PARSE_FAILURE /\ result = PARSE_SUCCESS /\ value = 12
    /\ \E k \in CallsTo(CallLog, "StringToIntInternal") : CallLog[k].at = 2 /\ CallLog[k].len = 4
    /\ \E k \in 1..Len(CallLog) : CallLog[k] = Ev("iter", "IsAllWhitespace", 1, 0)

C25_WitnessExponent ==
    /\ CallReturned /\ fn = "StringToDecimal"
    /\ s = <<32, 43, 48, 48, 46, 48, 49, 48, 101, 50, 32>>
    /\ Cardinality(CallsTo(CallLog, "StringToIntInternal")) = 1
    /\ \E k \in 1..Len(CallLog) : CallLog[k].kind = "shrink"

====
